---- MODULE Spec2Model ----
(***************************************************************************)
(* Model of the PyJail execution engine (src/src/core/pyjail/pyjail.py):   *)
(* PythonJail.execute_code with its keyword filter, the TimeoutGuard and   *)
(* its threading.Timer watchdog, the vm_escape queue, the tiny_vmmgr       *)
(* harness and the result aggregation.  Each call of execute_code runs on  *)
(* its own thread; the watchdog of a call runs on a second thread.         *)
(*                                                                         *)
(* Text is a sequence of one-character strings.  A byte buffer is a        *)
(* sequence of integers 0..255.  Python's None is the string "None".       *)
(***************************************************************************)
EXTENDS Integers, Sequences, FiniteSets, TLC

VARIABLES
    banned_keywords,  \* PythonJail.banned_keywords (tuple, sorted)
    timeout_seconds,  \* PythonJail.timeout_seconds
    asyncPrim,        \* what PyThreadState_SetAsyncExc does on this platform
    vm_env,           \* vm_env[c]: what the tiny_vmmgr binary does for call c
    code,             \* code[c]: the text submitted to call c
    prog,             \* prog[c]: what the submitted text does when executed
    pc,               \* pc[c]: position of call c's thread in execute_code
    ip,               \* ip[c]: number of statements of prog[c] already run
    exc,              \* exc[c]: exception in flight in call c's thread
    keyword_hits,     \* keyword_hits[c] (line 702), empty until the filter ran
    vm_queue,         \* vm_queue[c]: the call's escalation queue (line 728)
    stdout_capture,   \* stdout_capture[c]: the call's StringIO (line 726)
    stderr_capture,   \* stderr_capture[c]: the call's StringIO (line 727)
    sys_stdout,       \* the process-wide sys.stdout: "real" or a call's capture
    sys_stderr,       \* the process-wide sys.stderr
    old_stdout,       \* old_stdout[c]: target saved by redirect_stdout.__enter__
    old_stderr,       \* old_stderr[c]: target saved by redirect_stderr.__enter__
    real_stdout,      \* what was written to the real standard output
    g_enabled,        \* TimeoutGuard._enabled of call c's guard
    g_expired,        \* TimeoutGuard._expired
    g_timer,          \* TimeoutGuard._timer: "None" or "Timer"
    g_target,         \* TimeoutGuard._target_thread_id: "None" or a thread
    timer,            \* timer[c]: position of the watchdog thread of call c
    timer_tid,        \* timer_tid[c]: thread_id read at line 166
    async_exc,        \* async_exc[c]: JailTimeout pending in call c's thread
    fired_in_region,  \* history: the watchdog expired while c's code was running
    vm_results,       \* vm_results[c]: sessions built by _launch_vm_payloads
    workers,          \* workers[c]: tiny_vmmgr processes of call c still alive
    spawned,          \* history: processes call c has spawned
    log,              \* logs/bait.log, one entry per line
    flag_dir,         \* numbers of the fake-flagN.txt files in data/fake_flags
    flag_next,        \* flag_next[c]: index computed by _next_fake_flag_path
    fake_flag_path,   \* PythonJail.fake_flag_path (its number)
    stdout_value,     \* stdout_value[c] (line 791)
    stderr_value,     \* stderr_value[c] (line 792)
    outcome,          \* outcome[c]: how execute_code ended for its caller
    late_timeout,     \* history: JailTimeout raised in c's thread after return
    exec_env,         \* exec_env[c]: exec_globals and exec_locals (lines 729-730)
    helper_attrs,     \* attributes set on the function _pyjail_help (line 100)
    safe_builtins,    \* the names of PythonJail.SAFE_BUILTINS (line 318)
    response,         \* response[c]: what run_python answered for call c
    logged_in,        \* session.get("logged_in") of the browser's session
    web_requests,     \* number of /login and /logout requests served
    vm_flag_file,     \* content of the vm flag file (_vm_flag_path)
    reset_timer,      \* _VM_FLAG_RESET_TIMER: 0 for None, or the request whose Timer it is
    dev_pc,           \* dev_pc[r]: position of request r in dev_app
    restore,          \* restore[r]: the threading.Timer started for request r
    spin              \* spin[c]: parity of the iterations of the loop c's code is in

vars == <<banned_keywords, timeout_seconds, asyncPrim, vm_env, code, prog, pc, ip, exc,
          keyword_hits, vm_queue, stdout_capture, stderr_capture, sys_stdout,
          sys_stderr, old_stdout, old_stderr, real_stdout, g_enabled, g_expired,
          g_timer, g_target, timer, timer_tid, async_exc, fired_in_region,
          vm_results, workers, spawned, log, flag_dir, flag_next,
          fake_flag_path, stdout_value, stderr_value, outcome,
          late_timeout, exec_env, helper_attrs, safe_builtins, response, logged_in,
          web_requests, vm_flag_file, reset_timer, dev_pc, restore, spin>>

\* The state of the vm flag file and of its restore timers (web/app.py).
vm_flag_vars == <<vm_flag_file, reset_timer, dev_pc, restore>>

\* The two threads that call execute_code concurrently.
Calls == {"A", "B"}

\* The /devs/app requests that overwrite the vm flag file, each on its own
\* thread of the server.
MaxOverrides == 3

Requests == 1..MaxOverrides

----------------------------------------------------------------------------
(* Text helpers: str.lower, str.replace, str.rstrip, the `in` operator.    *)

\* Code point of a character of the model's alphabet (Python's ord).
Ord(ch) ==
    CASE ch = "\n" -> 10 [] ch = "\r" -> 13 [] ch = " " -> 32 [] ch = "(" -> 40
      [] ch = "F" -> 70 [] ch = "a" -> 97 [] ch = "f" -> 102 [] ch = "g" -> 103
      [] ch = "l" -> 108
      [] ch = "O" -> 79 [] ch = "S" -> 83 [] ch = "X" -> 88 [] ch = "Y" -> 89
      [] ch = "h" -> 104 [] ch = "k" -> 107 [] ch = "o" -> 111
      [] ch = "p" -> 112 [] ch = "s" -> 115 [] ch = "x" -> 120
      [] ch = "y" -> 121

\* str.lower on one character.
LowerChar(ch) ==
    CASE ch = "O" -> "o" [] ch = "S" -> "s" [] ch = "X" -> "x" [] ch = "Y" -> "y"
      [] ch = "F" -> "f"
      [] OTHER -> ch

\* str.lower
Lower(text) == [i \in 1..Len(text) |-> LowerChar(text[i])]

\* needle in hay, for two str values
IsSubstring(needle, hay) ==
    \E i \in 0..(Len(hay) - Len(needle)) :
        SubSeq(hay, i + 1, i + Len(needle)) = needle

\* str.replace("\r\n", "\n"), scanning from the left
RECURSIVE ReplaceCRLF(_)
ReplaceCRLF(text) ==
    IF text = <<>> THEN <<>>
    ELSE IF Len(text) >= 2 /\ text[1] = "\r" /\ text[2] = "\n"
         THEN <<"\n">> \o ReplaceCRLF(SubSeq(text, 3, Len(text)))
         ELSE <<text[1]>> \o ReplaceCRLF(Tail(text))

IsSpace(ch) == ch \in {" ", "\n", "\r"}

\* str.rstrip()
RECURSIVE RStrip(_)
RStrip(text) ==
    IF text # <<>> /\ IsSpace(text[Len(text)])
    THEN RStrip(SubSeq(text, 1, Len(text) - 1))
    ELSE text

\* line 698
Sanitize(text) == RStrip(ReplaceCRLF(text))

\* Python's ordering of two str values (lexicographic by code point).
RECURSIVE StrLess(_, _)
StrLess(a, b) ==
    IF b = <<>> THEN FALSE
    ELSE IF a = <<>> THEN TRUE
    ELSE IF Ord(a[1]) # Ord(b[1]) THEN Ord(a[1]) < Ord(b[1])
    ELSE StrLess(Tail(a), Tail(b))

\* sorted(S) for a set of str
RECURSIVE SortedStrs(_)
SortedStrs(S) ==
    IF S = {} THEN <<>>
    ELSE LET m == CHOOSE x \in S : \A y \in S \ {x} : StrLess(x, y)
         IN  <<m>> \o SortedStrs(S \ {m})

SeqToSet(s) == {s[i] : i \in 1..Len(s)}

----------------------------------------------------------------------------
(* Jail configuration.                                                     *)

\* Two of the built-in terms, in the order of the class attribute.
DEFAULT_BANNED_KEYWORDS == << <<"s","y","s">>, <<"o","s">> >>

\* KEYWORD_HONEYPOTS.get(keyword, "Keyword violation detected.")
HoneypotComment(keyword) ==
    IF keyword = <<"o","s">> THEN "honeypot:os"
    ELSE IF keyword = <<"s","y","s">> THEN "honeypot:sys"
    ELSE "Keyword violation detected."

\* PythonJail.__init__, lines 373-374
InitBannedKeywords(provided) ==
    SortedStrs(SeqToSet(DEFAULT_BANNED_KEYWORDS \o provided))

\* A filter that does not fold the case of the text.
CheckNoLower(banned, text) ==
    SelectSeq(banned, LAMBDA keyword : IsSubstring(Lower(keyword), text))

\* A filter that stops at the first term it finds.
CheckFirstOnly(banned, text) ==
    LET found == SelectSeq(banned, LAMBDA keyword : IsSubstring(Lower(keyword), Lower(text)))
    IN  IF found = <<>> THEN <<>> ELSE <<found[1]>>

\* PythonJail.check_banned_keywords, lines 488-499
CheckBannedKeywords(banned, text) ==
    SelectSeq(banned, LAMBDA keyword : IsSubstring(Lower(keyword), Lower(text)))

\* A jail without the check of line 699.
NoHookCheck(sanitized) == FALSE

\* line 699
HasHook(sanitized) == IsSubstring(<<"h","o","o","k","(">>, sanitized)

----------------------------------------------------------------------------
(* Escalation payloads: _normalise_vm_payload and vm_escape.               *)

VM_PAYLOAD_LIMIT == 4096

\* bytes of length n, every byte b
Fill(n, b) == [i \in 1..n |-> b]

\* str.encode(encoding) for the two codecs the model knows; any other name
\* is a LookupError.  A character is its code point.
EncodeChar(cp, encoding) ==
    IF encoding = "latin-1" THEN <<cp>>
    ELSE IF cp < 128 THEN <<cp>>
    ELSE <<192 + (cp \div 64), 128 + (cp % 64)>>

RECURSIVE EncodeStr(_, _)
EncodeStr(chars, encoding) ==
    IF chars = <<>> THEN <<>>
    ELSE EncodeChar(chars[1], encoding) \o EncodeStr(Tail(chars), encoding)

Encodable(chars, encoding) ==
    \A i \in 1..Len(chars) :
        IF encoding = "latin-1" THEN chars[i] <= 255 ELSE chars[i] < 2048

\* int(item) of line 589: an int is itself, a float is truncated, a str of
\* digits is parsed; None and other text raise TypeError / ValueError.
IntConvertible(item) == item.t \in {"int", "float", "digits"}
IntOf(item) == item.v

Failure(kind, msg) == [ok |-> FALSE, data |-> <<>>, error |-> kind, msg |-> msg]
Success(data) == [ok |-> TRUE, data |-> data, error |-> "None", msg |-> ""]

\* A size check without the upper limit.
CheckSizeNoLimit(data) ==
    IF data = <<>> THEN Failure("ValueError", "vm_escape payload must not be empty")
    ELSE Success(data)

\* lines 597-601
CheckSize(data) ==
    IF data = <<>> THEN Failure("ValueError", "vm_escape payload must not be empty")
    ELSE IF Len(data) > VM_PAYLOAD_LIMIT
         THEN Failure("ValueError", "vm_escape payload exceeds 4096 bytes")
         ELSE Success(data)

\* lines 586-595: the loop over the iterable, left to right
RECURSIVE IterBytes(_, _)
IterBytes(items, buffer) ==
    IF items = <<>> THEN Success(buffer)
    ELSE IF ~IntConvertible(items[1])
         THEN Failure("ValueError", "Iterable payload elements must be integers")
    ELSE IF ~(0 <= IntOf(items[1]) /\ IntOf(items[1]) <= 255)
         THEN Failure("ValueError", "Iterable payload values must be within 0-255")
    ELSE IterBytes(Tail(items), Append(buffer, IntOf(items[1])))

\* PythonJail._normalise_vm_payload
NormaliseVmPayload(payload, encoding) ==
    IF payload.kind = "str" THEN
        IF encoding \notin {"latin-1", "utf-8"}
        THEN Failure("ValueError", "Unsupported encoding")
        ELSE IF ~Encodable(payload.v, encoding)
        THEN Failure("UnicodeEncodeError", "codec can't encode character")
        ELSE CheckSize(EncodeStr(payload.v, encoding))
    ELSE IF payload.kind = "bytes" THEN CheckSize(payload.v)
    ELSE IF payload.kind = "iter" THEN
        LET r == IterBytes(payload.v, <<>>)
        IN  IF r.ok THEN CheckSize(r.data) ELSE r
    ELSE Failure("TypeError", "vm_escape expects str, bytes, or iterable of integers")

\* A queue that all calls of the jail share.
QueueAppendShared(queues, c, data) ==
    [k \in Calls |-> Append(queues[k], data)]

\* line 545, vm_queue.append(data): `queues` maps each call to the list its
\* own vm_escape closure holds.
QueueAppend(queues, c, data) ==
    [queues EXCEPT ![c] = Append(@, data)]

----------------------------------------------------------------------------
(* The namespace exec runs the code in: _build_exec_environment.  A table   *)
(* is the set of the names it binds.                                        *)

\* The keys of SAFE_BUILTINS, lines 318-356
SAFE_BUILTINS ==
    {"abs", "all", "any", "bool", "chr", "divmod", "enumerate", "filter",
     "float", "format", "hash", "hex", "int", "isinstance", "issubclass",
     "iter", "len", "list", "map", "max", "min", "next", "oct", "ord", "pow",
     "print", "range", "repr", "reversed", "round", "sorted", "str", "sum",
     "tuple", "zip", "help", "dir"}

\* The keys of safe_globals, lines 516-565
SAFE_GLOBALS ==
    {"__builtins__", "__name__", "__doc__", "hint", "vm_escape", "__globals__"}

\* No environment: the call has not reached line 729.
NoEnvironment == [globals |-> {}, builtins |-> {}, locals |-> {}]

\* lines 729-730: exec_globals with its copy of the builtins table
\* (dict(self.SAFE_BUILTINS), line 517) and an empty exec_locals
BuildExecEnvironment(table) ==
    [globals |-> SAFE_GLOBALS, builtins |-> table, locals |-> {}]

\* Name lookup of the code exec runs: locals, then globals, then builtins.
Visible(env, name) == name \in env.locals \cup env.globals \cup env.builtins

\* An assignment that lands in the namespace of every call of the jail.
BindShared(envs, c, name) ==
    [d \in Calls |-> [envs[d] EXCEPT !.locals = @ \cup {name}]]

\* `name = value` at the top level of the code: exec stores it in the
\* call's exec_locals (line 755).
Bind(envs, c, name) == [envs EXCEPT ![c].locals = @ \cup {name}]

----------------------------------------------------------------------------
(* Submitted programs.  A program is what the submitted text does when     *)
(* exec runs it: a list of statements, and how it reacts to a JailTimeout  *)
(* raised inside one of them.                                              *)

\* The byte a call's own payloads are made of.
Tag(c) == IF c = "A" THEN 65 ELSE 66

\* The statements programs are built from; "esc_max", a payload of exactly
\* VM_PAYLOAD_LIMIT bytes, is only used by BoundaryProgram, and "esc2", a
\* payload of two bytes, only by OrderProgram.
Statements ==
    {"print", "esc", "esc_empty", "esc_big", "raise", "loop", "loop_forever"}

EscStatements ==
    {"esc", "esc2", "esc_empty", "esc_big", "esc_max"} \cup
    {"esc_ints", "esc_float", "esc_digits", "esc_none", "esc_neg", "esc_256"}

\* The elements an iterable payload is made of: ints, a float (`v` is its
\* integer part), a str of digits, and None.
IntItem(n) == [t |-> "int", v |-> n]
FloatItem(n) == [t |-> "float", v |-> n]
DigitsItem(n) == [t |-> "digits", v |-> n]
NoneItem == [t |-> "None", v |-> 0]

\* The list a statement passes to vm_escape.
IterArg(stmt, c) ==
    IF stmt = "esc_ints" THEN <<IntItem(Tag(c)), IntItem(0), IntItem(255)>>
    ELSE IF stmt = "esc_float" THEN <<IntItem(Tag(c)), FloatItem(Tag(c))>>
    ELSE IF stmt = "esc_digits" THEN <<DigitsItem(Tag(c))>>
    ELSE IF stmt = "esc_none" THEN <<IntItem(Tag(c)), NoneItem>>
    ELSE IF stmt = "esc_neg" THEN <<IntItem(Tag(c)), IntItem(-1)>>
    ELSE <<IntItem(256)>>

IterStatements ==
    {"esc_ints", "esc_float", "esc_digits", "esc_none", "esc_neg", "esc_256"}

\* Statements that work on names: "bind" is `x = 1`, "use" is `print(x)`,
\* "mark" is `help.seen = 1` and "fresh" is `[0][len(help.__dict__)]`, which
\* raises IndexError when the function behind `help` carries an attribute.
NameStatements == {"bind", "use", "mark", "fresh"}

\* The argument of the vm_escape call a statement of call c makes.
PayloadArg(stmt, c) ==
    IF stmt \in IterStatements THEN [kind |-> "iter", v |-> IterArg(stmt, c)]
    ELSE IF stmt = "esc" THEN [kind |-> "bytes", v |-> <<Tag(c)>>]
    ELSE IF stmt = "esc2" THEN [kind |-> "bytes", v |-> <<Tag(c), Tag(c)>>]
    ELSE IF stmt = "esc_empty" THEN [kind |-> "bytes", v |-> <<>>]
    ELSE IF stmt = "esc_big"
         THEN [kind |-> "bytes", v |-> Fill(VM_PAYLOAD_LIMIT + 1, Tag(c))]
    ELSE [kind |-> "bytes", v |-> Fill(VM_PAYLOAD_LIMIT, Tag(c))]

\* "propagate": the JailTimeout is not caught.  "swallow": a try/except
\* around the statement catches it and the program goes on.  "convert": the
\* handler raises another exception.
Reactions == {"propagate", "swallow", "convert"}

\* The /login and /logout requests followed.
MaxWebRequests == 2

MaxStatements == 2

RECURSIVE SeqsUpTo(_, _)
SeqsUpTo(S, n) ==
    IF n = 0 THEN {<<>>}
    ELSE LET shorter == SeqsUpTo(S, n - 1)
         IN  shorter \cup {Append(s, x) : s \in shorter, x \in S}

\* The submitted text does not compile.
SYNTAX_ERROR == [stmts |-> <<"syntax">>, on_timeout |-> "propagate"]

Program(stmts, reaction) == [stmts |-> stmts, on_timeout |-> reaction]

BoundaryProgram == Program(<<"esc_max">>, "propagate")

\* Two payloads that differ, queued one after the other.
OrderProgram == Program(<<"esc", "esc2">>, "propagate")

\* Code that passes one list to vm_escape.
IterPrograms == {Program(<<stmt>>, "propagate") : stmt \in IterStatements}

\* Code that binds a name and prints it.
BindProgram == Program(<<"bind", "use">>, "propagate")

\* Code that prints a name it has not bound.
UseProgram == Program(<<"use">>, "propagate")

\* Code that leaves an attribute on `help` after checking there is none.
OnceProgram == Program(<<"fresh", "mark", "print">>, "propagate")

\* The code of the second call: the same as the first call's, except that
\* code which binds a name is followed by code which only reads it.
FollowUp(program) == IF program = BindProgram THEN UseProgram ELSE program

----------------------------------------------------------------------------
(* What execute_code hands to its caller.                                  *)

\* error=None
NoError == <<>>

\* f"{type(exc).__name__}: {exc}", lines 738 and 782; str(exc) is not
\* looked into
HumanError(name) == <<name, ": ", "str(exc)">>

NoOutcome ==
    [kind |-> "none", path |-> "", exc |-> "None", stdout |-> <<>>,
     stderr |-> <<>>, error |-> NoError, banned_keywords |-> <<>>,
     fake_flag_dropped |-> FALSE, banner |-> "None", vm_sessions |-> <<>>]

\* An ExecutionResult returned on one of the four paths.
Result(path, out, err, error, hits, banner, sessions) ==
    [kind |-> "result", path |-> path, exc |-> "None", stdout |-> out,
     stderr |-> err, error |-> error, banned_keywords |-> hits,
     fake_flag_dropped |-> FALSE, banner |-> banner, vm_sessions |-> sessions]

\* An exception that leaves execute_code.
Raised(name) == [NoOutcome EXCEPT !.kind = "raised", !.exc = name]

\* A violation whose banner is chosen by the last matched term.
ViolationLastTerm(hits) ==
    [Raised("JailViolation") EXCEPT
        !.banned_keywords = hits,
        !.banner = <<HoneypotComment(hits[Len(hits)]),
                     "Fake flag dispensed for archival joy.">>,
        !.fake_flag_dropped = TRUE]

\* lines 713-724
Violation(hits) ==
    [Raised("JailViolation") EXCEPT
        !.banned_keywords = hits,
        !.banner = <<HoneypotComment(hits[1]), "Fake flag dispensed for archival joy.">>,
        !.fake_flag_dropped = TRUE]

\* What run_python sends back: the status and the fields of the JSON body
\* that the page shows.
Response(status, output, error, banner) ==
    [status |-> status, output |-> output, error |-> error, banner |-> banner]

NoResponse == Response(0, <<>>, NoError, "None")

\* jail_sandbox.py lines 181-186: the suffix is added when the result has an
\* error and a blank stderr
ErrorMessage(result) ==
    IF result.error # NoError /\ result.stderr = <<>> /\ result.error[1] = "SyntaxError"
    THEN result.error \o <<" (SyntaxError: the parser has left the chat.)">>
    ELSE result.error

\* run_in_jail, given how execute_code ended: the dictionary it returns.
\* The banner of a JailViolation is always set (line 714), so the default of
\* line 154 is never taken.
RunInJail(o) ==
    IF o.kind = "raised" /\ o.exc = "JailViolation"
    THEN [output |-> <<>>, error |-> <<"str(violation)">>, banner |-> o.banner]
    ELSE IF o.kind = "raised"
    THEN [output |-> <<>>,
          error |-> <<"PyJail encountered an unexpected issue: ", o.exc>>,
          banner |-> "PyJail sputtered. Logs captured the chaos."]
    ELSE [output |-> o.stdout, error |-> ErrorMessage(o), banner |-> o.banner]

\* app.py line 577
StatusOf(result) == IF result.error = NoError THEN 200 ELSE 400

\* An exception that leaves run_python: Flask answers 500.
ServerError(name) == Response(500, <<>>, <<name>>, "None")

\* ERROR_SASS.get(type(exc))
HasSass(name) == name \in {"SyntaxError", "NameError", "TypeError", "ValueError", "JailTimeout"}

\* lines 737-741, 759-762, 776-779: what the handler writes to stderr_capture
ErrorLines(name) ==
    IF HasSass(name) THEN << <<"sass", name>>, <<"error", name>> >>
    ELSE << <<"error", name>> >>

TIMEOUT_MESSAGE == "time budget exceeded for 'PythonJail exec'"

----------------------------------------------------------------------------
(* Initial states.                                                         *)

CleanText == <<"p">>

Texts ==
    { CleanText,
      <<"o","s">>,
      <<"O","S">>,
      <<"s","y","s"," ","o","s">>,
      <<"h","o","o","k","(">>,
      <<"h","o","o","k","(","o","s">>,
      <<"x">>,
      <<"F","l","a","g">>,
      <<"p"," ">>,
      <<"p","\r","\n">> }

\* The fake-flagN.txt files already in the directory.
FlagDirs == {{}, {3}}

\* Operator-supplied terms (the banned_keywords argument of __init__).
ProvidedChoices == { <<>>, << <<"X">>, <<"p"," ">> >> }

Programs ==
    {Program(s, r) : s \in SeqsUpTo(Statements, MaxStatements), r \in Reactions}
    \cup {SYNTAX_ERROR, BoundaryProgram, OrderProgram, BindProgram, UseProgram,
          OnceProgram}
    \cup IterPrograms

\* The programs two concurrent calls are given.
ConcurrentProgram == Program(<<"esc", "print">>, "propagate")

\* A second program for call B: it prints and then raises.
RaisingProgram == Program(<<"print", "raise">>, "propagate")

\* Platform and configuration: the interrupt primitive only matters with the
\* guard enabled, the reaction only when an interrupt can arrive.
Settings ==
    { <<-1, "ok">>, <<0, "ok">>, <<1, "ok">>, <<1, "none">>, <<1, "zero">>, <<1, "multi">> }

\* What the tiny_vmmgr binary does with one payload: exit with status 0 or
\* another status, run past the timeout, be gone when Popen looks for it,
\* or fail to start.
VmBehaviours == {"exit0", "exit1", "hang", "vanished", "spawn_error"}

\* The binary is absent, or present with one behaviour per payload.
VmEnvs(n) ==
    {[binary |-> TRUE, runs |-> r] : r \in [1..n -> VmBehaviours]}
    \cup (IF n = 0 THEN {}
          ELSE {[binary |-> FALSE, runs |-> [i \in 1..n |-> "vanished"]]})

\* The number of vm_escape calls of a program that can be accepted.
EscCount(stmts) ==
    Len(SelectSeq(stmts, LAMBDA x : x \in {"esc", "esc2", "esc_max", "esc_ints",
                                           "esc_float", "esc_digits"}))

InputOk(text, program, setting) ==
    /\ text # CleanText => program = Program(<<"print">>, "propagate")
    /\ (setting # <<1, "ok">>) => program.on_timeout = "propagate"

\* The operator's terms and the decoy directory only matter when the filter
\* is the one to answer.
ConfigOk(text, provided, dir) ==
    text = CleanText => provided = <<>> /\ dir = {}

\* The inputs for which a second call follows the first one.
RepeatOk(text, program, setting, later) ==
    later =>
        \/ /\ setting = <<1, "ok">>
           /\ text \in {<<"o","s">>, <<"s","y","s"," ","o","s">>}
        \/ /\ setting = <<0, "ok">>
           /\ text = CleanText
           /\ program \in {BindProgram, OnceProgram}

InitCommon ==
    /\ ip = [c \in Calls |-> 0]
    /\ exc = [c \in Calls |-> "None"]
    /\ keyword_hits = [c \in Calls |-> <<>>]
    /\ vm_queue = [c \in Calls |-> <<>>]
    /\ stdout_capture = [c \in Calls |-> <<>>]
    /\ stderr_capture = [c \in Calls |-> <<>>]
    /\ sys_stdout = "real"
    /\ sys_stderr = "real"
    /\ old_stdout = [c \in Calls |-> "None"]
    /\ old_stderr = [c \in Calls |-> "None"]
    /\ real_stdout = <<>>
    /\ g_enabled = [c \in Calls |-> FALSE]
    /\ g_expired = [c \in Calls |-> FALSE]
    /\ g_timer = [c \in Calls |-> "None"]
    /\ g_target = [c \in Calls |-> "None"]
    /\ timer = [c \in Calls |-> "none"]
    /\ timer_tid = [c \in Calls |-> "None"]
    /\ async_exc = [c \in Calls |-> FALSE]
    /\ fired_in_region = [c \in Calls |-> FALSE]
    /\ vm_results = [c \in Calls |-> <<>>]
    /\ workers = [c \in Calls |-> 0]
    /\ spawned = [c \in Calls |-> 0]
    /\ flag_next = [c \in Calls |-> 0]
    /\ fake_flag_path = 2
    /\ stdout_value = [c \in Calls |-> <<>>]
    /\ stderr_value = [c \in Calls |-> <<>>]
    /\ outcome = [c \in Calls |-> NoOutcome]
    /\ late_timeout = [c \in Calls |-> FALSE]
    /\ spin = [c \in Calls |-> 0]
    /\ exec_env = [c \in Calls |-> NoEnvironment]
    /\ helper_attrs = {}
    /\ safe_builtins = SAFE_BUILTINS
    /\ response = [c \in Calls |-> NoResponse]
    /\ web_requests = 0
    /\ vm_flag_file = "default"
    /\ reset_timer = 0
    /\ dev_pc = [r \in Requests |-> "idle"]
    /\ restore = [r \in Requests |-> "none"]

\* One request, on thread A, with every input of the catalogue; for some
\* inputs a second request, on thread B, is made once the first has ended.
InitInputs ==
    /\ \E setting \in Settings, text \in Texts, program \in Programs,
          provided \in ProvidedChoices, dir \in FlagDirs, later \in BOOLEAN :
          /\ InputOk(text, program, setting)
          /\ ConfigOk(text, provided, dir)
          /\ RepeatOk(text, program, setting, later)
          /\ pc = [c \in Calls |-> IF c = "A" THEN "request"
                                   ELSE IF later THEN "queued" ELSE "idle"]
          /\ banned_keywords = InitBannedKeywords(provided)
          /\ flag_dir = dir
          /\ timeout_seconds = setting[1]
          /\ asyncPrim = setting[2]
          /\ code = [c \in Calls |-> text]
          /\ prog = [c \in Calls |-> IF c = "A" THEN program ELSE FollowUp(program)]
          /\ \E env \in VmEnvs(EscCount(program.stmts)) :
                vm_env = [c \in Calls |-> env]
    /\ log = <<>>
    /\ InitCommon

\* The requests of a browser whose session has logged in.
InitOne == InitInputs /\ logged_in = TRUE

\* The requests of a browser whose session has not logged in.
InitWeb == InitInputs /\ logged_in = FALSE

\* line 572: the line each of two admitted requests has recorded
BothRequested ==
    << <<"EVENT", "A", "pyjail execution requested">>,
       <<"EVENT", "B", "pyjail execution requested">> >>

\* Two calls on the same PythonJail, on threads A and B: two requests that
\* were both admitted and call execute_code at the same time, or two requests
\* made one after the other.
InitTwo ==
    /\ banned_keywords = InitBannedKeywords(<<>>)
    /\ timeout_seconds \in {0, 1}
    /\ asyncPrim = "ok"
    /\ code \in {[c \in Calls |-> CleanText],
                 [c \in Calls |-> IF c = "A" THEN <<"O", "S">> ELSE CleanText],
                 [c \in Calls |-> <<"O", "S">>]}
    /\ prog \in {[c \in Calls |-> ConcurrentProgram],
                 [c \in Calls |-> IF c = "A" THEN ConcurrentProgram ELSE RaisingProgram]}
    /\ vm_env = [c \in Calls |-> [binary |-> TRUE, runs |-> <<"exit0">>]]
    /\ flag_dir = {}
    /\ \/ pc = [c \in Calls |-> "start"] /\ log = BothRequested
       \/ pc = [c \in Calls |-> IF c = "A" THEN "request" ELSE "queued"] /\ log = <<>>
    /\ logged_in = TRUE
    /\ InitCommon

Init == InitOne

----------------------------------------------------------------------------
(* execute_code, up to the guarded region.                                 *)

\* log_attempt: one line appended to logs/bait.log

\* A write of the entry without its newline: the text continues the last line.
LogAppendNoNewline(lines, level, c, what) ==
    IF lines = <<>> THEN <<(<<level, c, what>>)>>
    ELSE [lines EXCEPT ![Len(lines)] = @ \o <<level, c, what>>]

\* lines 394-396: the handle is opened in append mode, `line + "\n"` goes to
\* the handle's own buffer and reaches the file as one write when the handle
\* is closed.
LogAppend(lines, level, c, what) == Append(lines, <<level, c, what>>)

Finish(c, result) ==
    /\ outcome' = [outcome EXCEPT ![c] = result]
    /\ pc' = [pc EXCEPT ![c] = "done"]

\* app.py _record_event: one line appended to logs/bait.log
RecordEvent(lines, who, message) == LogAppend(lines, "EVENT", who, message)

\* abort(403)
Forbidden == Response(403, <<>>, <<"Forbidden">>, "None")

\* A check that admits every session.
AdmitAll(flag) == TRUE

\* _require_login, line 391: `not session.get("logged_in")` is false
Admitted(flag) == flag

\* run_python, lines 569-574: _require_login, then the line recorded before
\* run_in_jail is called.
RequireLogin(c) ==
    /\ pc[c] = "request"
    /\ IF Admitted(logged_in)
       THEN /\ log' = RecordEvent(log, c, "pyjail execution requested")
            /\ pc' = [pc EXCEPT ![c] = "start"]
            /\ UNCHANGED response
       ELSE /\ log' = RecordEvent(log, c, "unauthorized access attempt")
            /\ response' = [response EXCEPT ![c] = Forbidden]
            /\ pc' = [pc EXCEPT ![c] = "rejected"]
    /\ UNCHANGED <<vm_flag_vars, logged_in, web_requests, safe_builtins, helper_attrs, exec_env, spin,
                   banned_keywords, timeout_seconds, asyncPrim, vm_env, code, prog, ip,
                   exc, keyword_hits, vm_queue, stdout_capture, stderr_capture,
                   sys_stdout, sys_stderr, old_stdout, old_stderr, real_stdout,
                   g_enabled, g_expired, g_timer, g_target, timer, timer_tid,
                   async_exc, fired_in_region, vm_results, workers, spawned,
                   flag_dir, flag_next, fake_flag_path, stdout_value,
                   stderr_value, outcome, late_timeout>>

\* The /login and /logout requests the model follows: those made while a
\* /run-python request is still to come, MaxWebRequests of them at most.
WebRequestOk ==
    /\ web_requests < MaxWebRequests
    /\ \E c \in Calls : pc[c] = "request"

\* login, lines 456-479: `valid` is whether the form holds the name and the
\* password of one of AUTHORIZED_USERS.
Login(valid) ==
    /\ WebRequestOk
    /\ web_requests' = web_requests + 1
    /\ IF valid
       THEN /\ logged_in' = TRUE
            /\ log' = RecordEvent(RecordEvent(log, "web", "login attempt"),
                                  "web", "login success")
       ELSE /\ UNCHANGED logged_in
            /\ log' = RecordEvent(RecordEvent(log, "web", "login attempt"),
                                  "web", "login failed")
    /\ UNCHANGED <<vm_flag_vars, response, safe_builtins, helper_attrs, exec_env, spin,
                   banned_keywords, timeout_seconds, asyncPrim, vm_env, code, prog,
                   pc, ip, exc, keyword_hits, vm_queue, stdout_capture,
                   stderr_capture, sys_stdout, sys_stderr, old_stdout, old_stderr,
                   real_stdout, g_enabled, g_expired, g_timer, g_target, timer,
                   timer_tid, async_exc, fired_in_region, vm_results, workers,
                   spawned, flag_dir, flag_next, fake_flag_path, stdout_value,
                   stderr_value, outcome, late_timeout>>

\* logout, lines 482-488: session.clear()
Logout ==
    /\ WebRequestOk
    /\ web_requests' = web_requests + 1
    /\ logged_in' = FALSE
    /\ log' = RecordEvent(log, "web", "logout")
    /\ UNCHANGED <<vm_flag_vars, response, safe_builtins, helper_attrs, exec_env, spin,
                   banned_keywords, timeout_seconds, asyncPrim, vm_env, code, prog,
                   pc, ip, exc, keyword_hits, vm_queue, stdout_capture,
                   stderr_capture, sys_stdout, sys_stderr, old_stdout, old_stderr,
                   real_stdout, g_enabled, g_expired, g_timer, g_target, timer,
                   timer_tid, async_exc, fired_in_region, vm_results, workers,
                   spawned, flag_dir, flag_next, fake_flag_path, stdout_value,
                   stderr_value, outcome, late_timeout>>

\* The caller of the second call waits until every other call has ended.
NextCall(c) ==
    /\ pc[c] = "queued"
    /\ \A d \in Calls \ {c} : pc[d] \in {"done", "rejected"}
    /\ pc' = [pc EXCEPT ![c] = "request"]
    /\ UNCHANGED <<vm_flag_vars, logged_in, web_requests, response, safe_builtins, helper_attrs, exec_env, spin, banned_keywords, timeout_seconds, asyncPrim, vm_env, code, prog, ip,
                   exc, keyword_hits, vm_queue, stdout_capture, stderr_capture,
                   sys_stdout, sys_stderr, old_stdout, old_stderr, real_stdout,
                   g_enabled, g_expired, g_timer, g_target, timer, timer_tid,
                   async_exc, fired_in_region, vm_results, workers, spawned,
                   log, flag_dir, flag_next, fake_flag_path, stdout_value,
                   stderr_value, outcome, late_timeout>>

\* A filter that lets a single matched term pass.
AfterFilterManyHits(hits) == IF Len(hits) > 1 THEN "viol_log" ELSE "compile"

\* A call that goes on to compile whatever the filter answered.
AfterFilterIgnoreHits(hits) == "compile"

\* line 706: where the call goes once the filter has answered
AfterFilter(hits) == IF hits # <<>> THEN "viol_log" ELSE "compile"

\* lines 696-706 and 726-730
Start(c) ==
    /\ pc[c] = "start"
    /\ LET sanitized == Sanitize(code[c])
       IN  IF HasHook(sanitized)
           THEN /\ Finish(c, Raised("NameError"))
                /\ UNCHANGED <<keyword_hits, exec_env>>
           ELSE LET hits == CheckBannedKeywords(banned_keywords, sanitized)
                IN  /\ keyword_hits' = [keyword_hits EXCEPT ![c] = hits]
                    /\ pc' = [pc EXCEPT ![c] = AfterFilter(hits)]
                    /\ exec_env' =
                          IF hits = <<>>
                          THEN [exec_env EXCEPT ![c] = BuildExecEnvironment(safe_builtins)]
                          ELSE exec_env
                    /\ UNCHANGED outcome
    /\ UNCHANGED <<vm_flag_vars, logged_in, web_requests, response, safe_builtins, helper_attrs, spin, banned_keywords, timeout_seconds, asyncPrim, vm_env, code, prog, ip,
                   exc, vm_queue, stdout_capture, stderr_capture, sys_stdout,
                   sys_stderr, old_stdout, old_stderr, real_stdout, g_enabled,
                   g_expired, g_timer, g_target, timer, timer_tid, async_exc,
                   fired_in_region, vm_results, workers, spawned, log, flag_dir,
                   flag_next, fake_flag_path, stdout_value, stderr_value,
                   late_timeout>>

\* lines 707-712
ViolationLog(c) ==
    /\ pc[c] = "viol_log"
    /\ log' = LogAppend(log, "BAIT", c, "User attempted")
    /\ pc' = [pc EXCEPT ![c] = "viol_scan"]
    /\ UNCHANGED <<vm_flag_vars, logged_in, web_requests, response, safe_builtins, helper_attrs, exec_env, spin, banned_keywords, timeout_seconds, asyncPrim, vm_env, code, prog, ip,
                   exc, keyword_hits, vm_queue, stdout_capture, stderr_capture,
                   sys_stdout, sys_stderr, old_stdout, old_stderr, real_stdout,
                   g_enabled, g_expired, g_timer, g_target, timer, timer_tid,
                   async_exc, fired_in_region, vm_results, workers, spawned,
                   flag_dir, flag_next, fake_flag_path, stdout_value,
                   stderr_value, outcome, late_timeout>>

Max(S) == CHOOSE x \in S : \A y \in S : y <= x

\* An index that counts the files instead of reading their numbers.
CountFakeFlags(dir) == Cardinality(dir) + 2

\* _next_fake_flag_path, lines 442 and 453-467
NextFakeFlagIndex(dir) == Max(dir \cup {1}) + 1

\* line 451: the index used when the directory cannot be listed
FALLBACK_INDEX == 2

\* drop_fake_flag, lines 474-475; the listing of line 444 may fail with
\* OSError
ViolationScan(c) ==
    /\ pc[c] = "viol_scan"
    /\ \/ flag_next' = [flag_next EXCEPT ![c] = NextFakeFlagIndex(flag_dir)]
       \/ flag_next' = [flag_next EXCEPT ![c] = FALLBACK_INDEX]
    /\ pc' = [pc EXCEPT ![c] = "viol_write"]
    /\ UNCHANGED <<vm_flag_vars, logged_in, web_requests, response, safe_builtins, helper_attrs, exec_env, spin, banned_keywords, timeout_seconds, asyncPrim, vm_env, code, prog, ip,
                   exc, keyword_hits, vm_queue, stdout_capture, stderr_capture,
                   sys_stdout, sys_stderr, old_stdout, old_stderr, real_stdout,
                   g_enabled, g_expired, g_timer, g_target, timer, timer_tid,
                   async_exc, fired_in_region, vm_results, workers, spawned,
                   log, flag_dir, fake_flag_path, stdout_value, stderr_value,
                   outcome, late_timeout>>

\* drop_fake_flag, lines 476-484, then lines 716-724; the write may fail
\* with OSError, which drop_fake_flag swallows.
ViolationRaise(c) ==
    /\ pc[c] = "viol_write"
    /\ \/ /\ flag_dir' = flag_dir \cup {flag_next[c]}
          /\ fake_flag_path' = flag_next[c]
       \/ UNCHANGED <<flag_dir, fake_flag_path>>
    /\ Finish(c, Violation(keyword_hits[c]))
    /\ UNCHANGED <<vm_flag_vars, logged_in, web_requests, response, safe_builtins, helper_attrs, exec_env, spin, banned_keywords, timeout_seconds, asyncPrim, vm_env, code, prog, ip,
                   exc, keyword_hits, vm_queue, stdout_capture, stderr_capture,
                   sys_stdout, sys_stderr, old_stdout, old_stderr, real_stdout,
                   g_enabled, g_expired, g_timer, g_target, timer, timer_tid,
                   async_exc, fired_in_region, vm_results, workers, spawned,
                   log, flag_next, stdout_value, stderr_value, late_timeout>>

\* lines 732-750
Compile(c) ==
    /\ pc[c] = "compile"
    /\ IF prog[c] = SYNTAX_ERROR
       THEN LET err == stderr_capture[c] \o ErrorLines("SyntaxError")
            IN  /\ log' = LogAppend(log, "WARN", c, "Compilation failure")
                /\ stderr_capture' = [stderr_capture EXCEPT ![c] = err]
                /\ Finish(c, Result("compile", stdout_capture[c], err,
                                    HumanError("SyntaxError"),
                                    keyword_hits[c], "None", <<>>))
       ELSE /\ pc' = [pc EXCEPT ![c] = "guard_enter"]
            /\ UNCHANGED <<log, stderr_capture, outcome>>
    /\ UNCHANGED <<vm_flag_vars, logged_in, web_requests, response, safe_builtins, helper_attrs, exec_env, spin, banned_keywords, timeout_seconds, asyncPrim, vm_env, code, prog, ip,
                   exc, keyword_hits, vm_queue, stdout_capture, sys_stdout,
                   sys_stderr, old_stdout, old_stderr, real_stdout, g_enabled,
                   g_expired, g_timer, g_target, timer, timer_tid, async_exc,
                   fired_in_region, vm_results, workers, spawned, flag_dir,
                   flag_next, fake_flag_path, stdout_value, stderr_value,
                   late_timeout>>

----------------------------------------------------------------------------
(* The guarded region: TimeoutGuard, the two redirects, exec.              *)

\* A harness that drains the queue however the region was left.
DispatchAlwaysDrain(e) == "vm_check"

\* Where the thread goes when the with-block of lines 752-755 is left with
\* exception `e` (lines 756, 772, 790).
Dispatch(e) ==
    IF e = "None" THEN "vm_check"
    ELSE IF e = "JailTimeout" THEN "h_timeout"
    ELSE "h_runtime"

\* The positions at which TimeoutGuard.__exit__ has not yet tested _expired.
Region ==
    {"redir_out", "redir_err", "exec", "unredir_err", "unredir_out",
     "guard_exit", "guard_exit2"}

\* A guard that a budget of zero leaves enabled.
EnabledFromZero(seconds) == seconds >= 0

\* TimeoutGuard.__post_init__, line 140
Enabled(seconds) == seconds > 0

\* TimeoutGuard.__post_init__ and __enter__, lines 139-151
GuardEnter(c) ==
    /\ pc[c] = "guard_enter"
    /\ g_enabled' = [g_enabled EXCEPT ![c] = Enabled(timeout_seconds)]
    /\ IF Enabled(timeout_seconds)
       THEN /\ g_expired' = [g_expired EXCEPT ![c] = FALSE]
            /\ g_target' = [g_target EXCEPT ![c] = c]
            /\ g_timer' = [g_timer EXCEPT ![c] = "Timer"]
            /\ timer' = [timer EXCEPT ![c] = "armed"]
       ELSE UNCHANGED <<g_expired, g_target, g_timer, timer>>
    /\ pc' = [pc EXCEPT ![c] = "redir_out"]
    /\ UNCHANGED <<vm_flag_vars, logged_in, web_requests, response, safe_builtins, helper_attrs, exec_env, spin, banned_keywords, timeout_seconds, asyncPrim, vm_env, code, prog,
                   ip, exc, keyword_hits, vm_queue, stdout_capture,
                   stderr_capture, sys_stdout, sys_stderr, old_stdout,
                   old_stderr, real_stdout, timer_tid, async_exc,
                   fired_in_region, vm_results, workers, spawned, log,
                   flag_dir, flag_next, fake_flag_path, stdout_value,
                   stderr_value, outcome, late_timeout>>

\* contextlib.redirect_stdout.__enter__ (line 754)
RedirectStdout(c) ==
    /\ pc[c] = "redir_out"
    /\ ~async_exc[c]
    /\ old_stdout' = [old_stdout EXCEPT ![c] = sys_stdout]
    /\ sys_stdout' = c
    /\ pc' = [pc EXCEPT ![c] = "redir_err"]
    /\ UNCHANGED <<vm_flag_vars, logged_in, web_requests, response, safe_builtins, helper_attrs, exec_env, spin, banned_keywords, timeout_seconds, asyncPrim, vm_env, code, prog,
                   ip, exc, keyword_hits, vm_queue, stdout_capture,
                   stderr_capture, sys_stderr, old_stderr, real_stdout,
                   g_enabled, g_expired, g_timer, g_target, timer, timer_tid,
                   async_exc, fired_in_region, vm_results, workers, spawned,
                   log, flag_dir, flag_next, fake_flag_path, stdout_value,
                   stderr_value, outcome, late_timeout>>

\* contextlib.redirect_stderr.__enter__ (line 754)
RedirectStderr(c) ==
    /\ pc[c] = "redir_err"
    /\ ~async_exc[c]
    /\ old_stderr' = [old_stderr EXCEPT ![c] = sys_stderr]
    /\ sys_stderr' = c
    /\ pc' = [pc EXCEPT ![c] = "exec"]
    /\ UNCHANGED <<vm_flag_vars, logged_in, web_requests, response, safe_builtins, helper_attrs, exec_env, spin, banned_keywords, timeout_seconds, asyncPrim, vm_env, code, prog,
                   ip, exc, keyword_hits, vm_queue, stdout_capture,
                   stderr_capture, sys_stdout, old_stdout, real_stdout,
                   g_enabled, g_expired, g_timer, g_target, timer, timer_tid,
                   async_exc, fired_in_region, vm_results, workers, spawned,
                   log, flag_dir, flag_next, fake_flag_path, stdout_value,
                   stderr_value, outcome, late_timeout>>

\* The exception leaves exec (line 755) and the redirects unwind.
RaiseInExec(c, name) ==
    /\ exc' = [exc EXCEPT ![c] = name]
    /\ pc' = [pc EXCEPT ![c] = "unredir_err"]

\* print(...): the text goes to whatever sys.stdout is at that moment.
ExecPrint(c) ==
    /\ IF sys_stdout = "real"
       THEN /\ real_stdout' = Append(real_stdout, <<"print", c>>)
            /\ UNCHANGED stdout_capture
       ELSE /\ stdout_capture' =
                  [stdout_capture EXCEPT ![sys_stdout] = Append(@, <<"print", c>>)]
            /\ UNCHANGED real_stdout
    /\ ip' = [ip EXCEPT ![c] = @ + 1]
    /\ UNCHANGED <<exc, pc, vm_queue>>

\* vm_escape(payload), lines 544-546
ExecEscape(c, stmt) ==
    LET r == NormaliseVmPayload(PayloadArg(stmt, c), "latin-1")
    IN  /\ IF r.ok
           THEN /\ vm_queue' = QueueAppend(vm_queue, c, r.data)
                /\ ip' = [ip EXCEPT ![c] = @ + 1]
                /\ UNCHANGED <<exc, pc>>
           ELSE /\ RaiseInExec(c, r.error)
                /\ UNCHANGED <<vm_queue, ip>>
        /\ UNCHANGED <<stdout_capture, real_stdout>>

\* A statement that binds or reads a name, or an attribute of `help`.
ExecName(c, stmt) ==
    IF stmt = "bind"
    THEN /\ exec_env' = Bind(exec_env, c, "x")
         /\ ip' = [ip EXCEPT ![c] = @ + 1]
         /\ UNCHANGED <<pc, exc, vm_queue, stdout_capture, real_stdout, helper_attrs>>
    ELSE IF stmt = "use"
    THEN /\ IF Visible(exec_env[c], "x")
            THEN ExecPrint(c)
            ELSE /\ RaiseInExec(c, "NameError")
                 /\ UNCHANGED <<ip, vm_queue, stdout_capture, real_stdout>>
         /\ UNCHANGED <<exec_env, helper_attrs>>
    ELSE IF stmt = "mark"
    THEN /\ helper_attrs' = helper_attrs \cup {"seen"}
         /\ ip' = [ip EXCEPT ![c] = @ + 1]
         /\ UNCHANGED <<pc, exc, vm_queue, stdout_capture, real_stdout, exec_env>>
    ELSE /\ IF helper_attrs = {}
            THEN /\ ip' = [ip EXCEPT ![c] = @ + 1]
                 /\ UNCHANGED <<pc, exc>>
            ELSE /\ RaiseInExec(c, "IndexError")
                 /\ UNCHANGED ip
         /\ UNCHANGED <<vm_queue, stdout_capture, real_stdout, exec_env, helper_attrs>>

\* One statement of the submitted program, run by exec (line 755).  The two
\* loops never end by themselves: a step of them is one more iteration.
ExecStatement(c) ==
    /\ pc[c] = "exec"
    /\ ~async_exc[c]
    /\ IF ip[c] = Len(prog[c].stmts)
       THEN /\ pc' = [pc EXCEPT ![c] = "unredir_err"]
            /\ UNCHANGED <<ip, exc, vm_queue, stdout_capture, real_stdout,
                           exec_env, helper_attrs>>
       ELSE LET stmt == prog[c].stmts[ip[c] + 1]
            IN  IF stmt \in NameStatements THEN ExecName(c, stmt)
                ELSE /\ UNCHANGED <<exec_env, helper_attrs>>
                     /\ IF stmt = "print" THEN ExecPrint(c)
                        ELSE IF stmt \in EscStatements THEN ExecEscape(c, stmt)
                        ELSE IF stmt = "raise"
                        THEN /\ RaiseInExec(c, "ZeroDivisionError")
                             /\ UNCHANGED <<ip, vm_queue, stdout_capture, real_stdout>>
                        ELSE UNCHANGED <<pc, ip, exc, vm_queue, stdout_capture,
                                         real_stdout>>
    /\ spin' = IF /\ ip[c] < Len(prog[c].stmts)
                  /\ prog[c].stmts[ip[c] + 1] \in {"loop", "loop_forever"}
               THEN [spin EXCEPT ![c] = 1 - @]
               ELSE spin
    /\ UNCHANGED <<vm_flag_vars, logged_in, web_requests, response, safe_builtins, banned_keywords, timeout_seconds, asyncPrim, vm_env,
                   code, prog, keyword_hits, stderr_capture, sys_stdout, sys_stderr,
                   old_stdout, old_stderr, g_enabled, g_expired, g_timer,
                   g_target, timer, timer_tid, async_exc, fired_in_region,
                   vm_results, workers, spawned, log, flag_dir, flag_next,
                   fake_flag_path, stdout_value, stderr_value, outcome,
                   late_timeout>>

\* contextlib.redirect_stderr.__exit__
RestoreStderr(c) ==
    /\ pc[c] = "unredir_err"
    /\ ~async_exc[c]
    /\ sys_stderr' = old_stderr[c]
    /\ pc' = [pc EXCEPT ![c] = "unredir_out"]
    /\ UNCHANGED <<vm_flag_vars, logged_in, web_requests, response, safe_builtins, helper_attrs, exec_env, spin, banned_keywords, timeout_seconds, asyncPrim, vm_env, code, prog,
                   ip, exc, keyword_hits, vm_queue, stdout_capture,
                   stderr_capture, sys_stdout, old_stdout, old_stderr,
                   real_stdout, g_enabled, g_expired, g_timer, g_target,
                   timer, timer_tid, async_exc, fired_in_region, vm_results,
                   workers, spawned, log, flag_dir, flag_next,
                   fake_flag_path, stdout_value, stderr_value, outcome,
                   late_timeout>>

\* contextlib.redirect_stdout.__exit__
RestoreStdout(c) ==
    /\ pc[c] = "unredir_out"
    /\ ~async_exc[c]
    /\ sys_stdout' = old_stdout[c]
    /\ pc' = [pc EXCEPT ![c] = "guard_exit"]
    /\ UNCHANGED <<vm_flag_vars, logged_in, web_requests, response, safe_builtins, helper_attrs, exec_env, spin, banned_keywords, timeout_seconds, asyncPrim, vm_env, code, prog,
                   ip, exc, keyword_hits, vm_queue, stdout_capture,
                   stderr_capture, sys_stderr, old_stdout, old_stderr,
                   real_stdout, g_enabled, g_expired, g_timer, g_target,
                   timer, timer_tid, async_exc, fired_in_region, vm_results,
                   workers, spawned, log, flag_dir, flag_next,
                   fake_flag_path, stdout_value, stderr_value, outcome,
                   late_timeout>>

\* threading.Timer.cancel: stops a timer that is still waiting, and only that.
Cancel(t) == IF t = "armed" THEN "cancelled" ELSE t

\* TimeoutGuard.__exit__, lines 192-199
GuardExit(c) ==
    /\ pc[c] = "guard_exit"
    /\ ~async_exc[c]
    /\ IF ~g_enabled[c]
       THEN /\ pc' = [pc EXCEPT ![c] = Dispatch(exc[c])]
            /\ UNCHANGED <<g_timer, g_target, timer>>
       ELSE /\ g_timer' = [g_timer EXCEPT ![c] = "None"]
            /\ g_target' = [g_target EXCEPT ![c] = "None"]
            /\ timer' = [timer EXCEPT ![c] = Cancel(@)]
            /\ pc' = [pc EXCEPT ![c] = "guard_exit2"]
    /\ UNCHANGED <<vm_flag_vars, logged_in, web_requests, response, safe_builtins, helper_attrs, exec_env, spin, banned_keywords, timeout_seconds, asyncPrim, vm_env, code, prog,
                   ip, exc, keyword_hits, vm_queue, stdout_capture,
                   stderr_capture, sys_stdout, sys_stderr, old_stdout,
                   old_stderr, real_stdout, g_enabled, g_expired, timer_tid,
                   async_exc, fired_in_region, vm_results, workers, spawned,
                   log, flag_dir, flag_next, fake_flag_path, stdout_value,
                   stderr_value, outcome, late_timeout>>

\* line 201: the exception the with-block ends with
ExitException(expired, e) ==
    IF expired /\ e = "None" THEN "JailTimeout" ELSE e

\* TimeoutGuard.__exit__, lines 201-206
GuardExitCheck(c) ==
    /\ pc[c] = "guard_exit2"
    /\ ~async_exc[c]
    /\ exc' = [exc EXCEPT ![c] = ExitException(g_expired[c], @)]
    /\ pc' = [pc EXCEPT ![c] = Dispatch(exc'[c])]
    /\ UNCHANGED <<vm_flag_vars, logged_in, web_requests, response, safe_builtins, helper_attrs, exec_env, spin, banned_keywords, timeout_seconds, asyncPrim, vm_env, code, prog,
                   ip, keyword_hits, vm_queue, stdout_capture,
                   stderr_capture, sys_stdout, sys_stderr, old_stdout,
                   old_stderr, real_stdout, g_enabled, g_expired, g_timer,
                   g_target, timer, timer_tid, async_exc, fired_in_region,
                   vm_results, workers, spawned, log, flag_dir, flag_next,
                   fake_flag_path, stdout_value, stderr_value, outcome,
                   late_timeout>>

\* lines 756-771
HandleTimeout(c) ==
    /\ pc[c] = "h_timeout"
    /\ ~async_exc[c]
    /\ log' = LogAppend(log, "WARN", c, "Timeout triggered")
    /\ stderr_capture' = [stderr_capture EXCEPT ![c] = @ \o ErrorLines("JailTimeout")]
    /\ Finish(c, Result("timeout", stdout_capture[c], stderr_capture'[c],
                        <<TIMEOUT_MESSAGE>>, keyword_hits[c], "None", <<>>))
    /\ UNCHANGED <<vm_flag_vars, logged_in, web_requests, response, safe_builtins, helper_attrs, exec_env, spin, banned_keywords, timeout_seconds, asyncPrim, vm_env, code, prog,
                   ip, exc, keyword_hits, vm_queue, stdout_capture,
                   sys_stdout, sys_stderr, old_stdout, old_stderr,
                   real_stdout, g_enabled, g_expired, g_timer, g_target,
                   timer, timer_tid, async_exc, fired_in_region, vm_results,
                   workers, spawned, flag_dir, flag_next, fake_flag_path,
                   stdout_value, stderr_value, late_timeout>>

\* lines 772-788
HandleRuntime(c) ==
    /\ pc[c] = "h_runtime"
    /\ ~async_exc[c]
    /\ log' = LogAppend(log, "WARN", c, "Runtime exception")
    /\ stderr_capture' = [stderr_capture EXCEPT ![c] = @ \o ErrorLines(exc[c])]
    /\ Finish(c, Result("runtime", stdout_capture[c], stderr_capture'[c],
                        HumanError(exc[c]), keyword_hits[c], "None", <<>>))
    /\ UNCHANGED <<vm_flag_vars, logged_in, web_requests, response, safe_builtins, helper_attrs, exec_env, spin, banned_keywords, timeout_seconds, asyncPrim, vm_env, code, prog,
                   ip, exc, keyword_hits, vm_queue, stdout_capture,
                   sys_stdout, sys_stderr, old_stdout, old_stderr,
                   real_stdout, g_enabled, g_expired, g_timer, g_target,
                   timer, timer_tid, async_exc, fired_in_region, vm_results,
                   workers, spawned, flag_dir, flag_next, fake_flag_path,
                   stdout_value, stderr_value, late_timeout>>

----------------------------------------------------------------------------
(* The watchdog: threading.Timer running TimeoutGuard._timeout_triggered.  *)

\* An exception that ends the watchdog thread is printed by
\* threading.excepthook to whatever sys.stderr is at that moment.
ThreadTraceback(c) ==
    IF sys_stderr = "real" THEN stderr_capture
    ELSE [stderr_capture EXCEPT ![sys_stderr] = Append(@, <<"traceback", c>>)]

\* threading.Timer.run: the interval has elapsed and cancel() was not called
TimerFire(c) ==
    /\ timer[c] = "armed"
    /\ timer' = [timer EXCEPT ![c] = "run"]
    /\ UNCHANGED <<vm_flag_vars, logged_in, web_requests, response, safe_builtins, helper_attrs, exec_env, spin, banned_keywords, timeout_seconds, asyncPrim, vm_env, code, prog,
                   pc, ip, exc, keyword_hits, vm_queue, stdout_capture,
                   stderr_capture, sys_stdout, sys_stderr, old_stdout,
                   old_stderr, real_stdout, g_enabled, g_expired, g_timer,
                   g_target, timer_tid, async_exc, fired_in_region,
                   vm_results, workers, spawned, log, flag_dir, flag_next,
                   fake_flag_path, stdout_value, stderr_value, outcome,
                   late_timeout>>

\* lines 154-157
TimerTrigger(c) ==
    /\ timer[c] = "run"
    /\ IF ~g_enabled[c] \/ g_expired[c]
       THEN /\ timer' = [timer EXCEPT ![c] = "finished"]
            /\ UNCHANGED <<g_expired, fired_in_region>>
       ELSE /\ g_expired' = [g_expired EXCEPT ![c] = TRUE]
            /\ fired_in_region' = [fired_in_region EXCEPT ![c] = pc[c] = "exec"]
            /\ timer' = [timer EXCEPT ![c] = "expired_set"]
    /\ UNCHANGED <<vm_flag_vars, logged_in, web_requests, response, safe_builtins, helper_attrs, exec_env, spin, banned_keywords, timeout_seconds, asyncPrim, vm_env, code, prog,
                   pc, ip, exc, keyword_hits, vm_queue, stdout_capture,
                   stderr_capture, sys_stdout, sys_stderr, old_stdout,
                   old_stderr, real_stdout, g_enabled, g_timer, g_target,
                   timer_tid, async_exc, vm_results, workers, spawned, log,
                   flag_dir, flag_next, fake_flag_path, stdout_value,
                   stderr_value, outcome, late_timeout>>

\* lines 166-170; exc_type() raised here ends the watchdog thread (line 161)
TimerReadTarget(c) ==
    /\ timer[c] = "expired_set"
    /\ IF g_target[c] = "None" \/ asyncPrim = "none"
       THEN /\ timer' = [timer EXCEPT ![c] = "finished"]
            /\ stderr_capture' = ThreadTraceback(c)
            /\ UNCHANGED timer_tid
       ELSE /\ timer_tid' = [timer_tid EXCEPT ![c] = g_target[c]]
            /\ timer' = [timer EXCEPT ![c] = "tid_read"]
            /\ UNCHANGED stderr_capture
    /\ UNCHANGED <<vm_flag_vars, logged_in, web_requests, response, safe_builtins, helper_attrs, exec_env, spin, banned_keywords, timeout_seconds, asyncPrim, vm_env, code, prog,
                   pc, ip, exc, keyword_hits, vm_queue, stdout_capture,
                   sys_stdout, sys_stderr, old_stdout, old_stderr,
                   real_stdout, g_enabled, g_expired, g_timer, g_target,
                   async_exc, fired_in_region, vm_results, workers, spawned,
                   log, flag_dir, flag_next, fake_flag_path, stdout_value,
                   stderr_value, outcome, late_timeout>>

\* lines 171-176: PyThreadState_SetAsyncExc and what it reports
TimerInject(c) ==
    /\ timer[c] = "tid_read"
    /\ IF asyncPrim = "ok"
       THEN /\ async_exc' = [async_exc EXCEPT ![timer_tid[c]] = TRUE]
            /\ UNCHANGED stderr_capture
       ELSE /\ stderr_capture' = ThreadTraceback(c)
            /\ UNCHANGED async_exc
    /\ timer' = [timer EXCEPT ![c] = "finished"]
    /\ UNCHANGED <<vm_flag_vars, logged_in, web_requests, response, safe_builtins, helper_attrs, exec_env, spin, banned_keywords, timeout_seconds, asyncPrim, vm_env, code, prog,
                   pc, ip, exc, keyword_hits, vm_queue, stdout_capture,
                   sys_stdout, sys_stderr, old_stdout, old_stderr,
                   real_stdout, g_enabled, g_expired, g_timer, g_target,
                   timer_tid, fired_in_region, vm_results, workers, spawned,
                   log, flag_dir, flag_next, fake_flag_path, stdout_value,
                   stderr_value, outcome, late_timeout>>

----------------------------------------------------------------------------
(* _launch_vm_payloads and the success path of execute_code.               *)

Session(payload, out, err, returncode, error) ==
    [payload |-> payload, stdout |-> out, stderr |-> err,
     returncode |-> returncode, error |-> error]

MISSING == "tiny_vmmgr binary missing"

\* line 658
VM_TIMED_OUT == "tiny_vmmgr timed out while executing payload."

\* A harness report that covers the first payload only.
MissingSessionsOnce(payloads) ==
    << Session(payloads[1], "", MISSING, "None", MISSING) >>

\* lines 625-634: one session per payload, without spawning
MissingSessions(payloads) ==
    [i \in 1..Len(payloads) |-> Session(payloads[i], "", MISSING, "None", MISSING)]

\* A harness that gives up on the queue at the first failed session.
SessionDoneOrGiveUp(c, session) ==
    /\ vm_results' = [vm_results EXCEPT ![c] = Append(@, session)]
    /\ pc' = [pc EXCEPT ![c] =
                IF Len(vm_results[c]) + 1 = Len(vm_queue[c]) \/ session.error # "None"
                THEN "aggregate" ELSE "vm_spawn"]

\* lines 678-688: `session` is appended; the loop goes on or returns
SessionDone(c, session) ==
    /\ vm_results' = [vm_results EXCEPT ![c] = Append(@, session)]
    /\ pc' = [pc EXCEPT ![c] =
                IF Len(vm_results[c]) + 1 = Len(vm_queue[c])
                THEN "aggregate" ELSE "vm_spawn"]

\* A harness that takes the binary to be there.
BinaryAssumed(env) == TRUE

\* line 622, binary_path.exists()
BinaryExists(env) == env.binary

\* lines 790-793 and 617-635
LaunchVmPayloads(c) ==
    /\ pc[c] = "vm_check"
    /\ ~async_exc[c]
    /\ stdout_value' = [stdout_value EXCEPT ![c] = stdout_capture[c]]
    /\ stderr_value' = [stderr_value EXCEPT ![c] = stderr_capture[c]]
    /\ IF vm_queue[c] = <<>>
       THEN /\ pc' = [pc EXCEPT ![c] = "aggregate"]
            /\ UNCHANGED <<vm_results, log>>
       ELSE IF ~BinaryExists(vm_env[c])
       THEN /\ log' = LogAppend(log, "WARN", c, MISSING)
            /\ vm_results' = [vm_results EXCEPT ![c] = MissingSessions(vm_queue[c])]
            /\ pc' = [pc EXCEPT ![c] = "aggregate"]
       ELSE /\ pc' = [pc EXCEPT ![c] = "vm_spawn"]
            /\ UNCHANGED <<vm_results, log>>
    /\ UNCHANGED <<vm_flag_vars, logged_in, web_requests, response, safe_builtins, helper_attrs, exec_env, spin, banned_keywords, timeout_seconds, asyncPrim, vm_env, code,
                   prog, ip, exc, keyword_hits, vm_queue, stdout_capture,
                   stderr_capture, sys_stdout, sys_stderr, old_stdout,
                   old_stderr, real_stdout, g_enabled, g_expired, g_timer,
                   g_target, timer, timer_tid, async_exc, fired_in_region,
                   workers, spawned, flag_dir, flag_next, fake_flag_path,
                   outcome, late_timeout>>

\* The payload the loop of line 637 has reached, and what tiny_vmmgr does
\* with it.
CurrentPayload(c) == vm_queue[c][Len(vm_results[c]) + 1]
CurrentRun(c) == vm_env[c].runs[Len(vm_results[c]) + 1]

\* lines 638-646: subprocess.Popen starts tiny_vmmgr, or fails with
\* FileNotFoundError (line 660) or another exception (line 667)
VmSpawn(c) ==
    /\ pc[c] = "vm_spawn"
    /\ ~async_exc[c]
    /\ IF CurrentRun(c) = "vanished"
       THEN /\ log' = LogAppend(log, "WARN", c, "tiny_vmmgr missing")
            /\ SessionDone(c, Session(CurrentPayload(c), "", "", "None",
                                      "tiny_vmmgr missing"))
            /\ UNCHANGED <<workers, spawned>>
       ELSE IF CurrentRun(c) = "spawn_error"
       THEN /\ log' = LogAppend(log, "WARN", c, "tiny_vmmgr execution failed")
            /\ SessionDone(c, Session(CurrentPayload(c), "", "exc", "None",
                                      "tiny_vmmgr execution failed"))
            /\ UNCHANGED <<workers, spawned>>
       ELSE /\ workers' = [workers EXCEPT ![c] = @ + 1]
            /\ spawned' = [spawned EXCEPT ![c] = @ + 1]
            /\ pc' = [pc EXCEPT ![c] = "vm_wait"]
            /\ UNCHANGED <<vm_results, log>>
    /\ UNCHANGED <<vm_flag_vars, logged_in, web_requests, response, safe_builtins, helper_attrs, exec_env, spin, banned_keywords, timeout_seconds, asyncPrim, vm_env, code,
                   prog, ip, exc, keyword_hits, vm_queue, stdout_capture,
                   stderr_capture, sys_stdout, sys_stderr, old_stdout,
                   old_stderr, real_stdout, g_enabled, g_expired, g_timer,
                   g_target, timer, timer_tid, async_exc, fired_in_region,
                   flag_dir, flag_next, fake_flag_path, stdout_value,
                   stderr_value, outcome, late_timeout>>

\* A harness that goes on without waiting for the worker to end.
NotReaped(n) == n

\* line 647: communicate returns once the worker has exited
Reaped(n) == n - 1

\* A harness that records the timeout and leaves the worker running.
NotKilled(n) == n

\* lines 654-655: proc.kill(), then communicate() collects the output and
\* waits for the worker to be gone
Killed(n) == n - 1

\* lines 647-659: communicate(payload, timeout=6.0); the worker exits with
\* status 0, exits with another status, or is killed on the timeout
VmWait(c) ==
    /\ pc[c] = "vm_wait"
    /\ ~async_exc[c]
    /\ workers' = [workers EXCEPT ![c] =
                     IF CurrentRun(c) = "hang" THEN Killed(@) ELSE Reaped(@)]
    /\ IF CurrentRun(c) = "exit0"
       THEN /\ log' = LogAppend(log, "INFO", c, "tiny_vmmgr run")
            /\ SessionDone(c, Session(CurrentPayload(c), "out", "", "0", "None"))
       ELSE IF CurrentRun(c) = "exit1"
       THEN /\ log' = LogAppend(log, "WARN", c, "tiny_vmmgr run")
            /\ SessionDone(c, Session(CurrentPayload(c), "", "err", "1",
                                      "tiny_vmmgr exited with code 1"))
       ELSE /\ log' = LogAppend(log, "WARN", c, "tiny_vmmgr timeout")
            /\ SessionDone(c, Session(CurrentPayload(c), "part", "", "-9", VM_TIMED_OUT))
    /\ UNCHANGED <<vm_flag_vars, logged_in, web_requests, response, safe_builtins, helper_attrs, exec_env, spin, banned_keywords, timeout_seconds, asyncPrim, vm_env, code,
                   prog, ip, exc, keyword_hits, vm_queue, stdout_capture,
                   stderr_capture, sys_stdout, sys_stderr, old_stdout,
                   old_stderr, real_stdout, g_enabled, g_expired, g_timer,
                   g_target, timer, timer_tid, async_exc, fired_in_region,
                   spawned, flag_dir, flag_next, fake_flag_path,
                   stdout_value, stderr_value, outcome, late_timeout>>

\* lines 798-806: the stdout fragments of the sessions from index i on
RECURSIVE StdoutFragments(_, _)
StdoutFragments(sessions, i) ==
    IF i > Len(sessions) THEN <<>>
    ELSE (IF sessions[i].stdout # ""
          THEN << <<"header", i, sessions[i].returncode, "stdout">> >>
          ELSE << <<"header", i, sessions[i].returncode>> >>)
         \o StdoutFragments(sessions, i + 1)

\* lines 808-814: the stderr fragments of the sessions from index i on
RECURSIVE StderrFragments(_, _)
StderrFragments(sessions, i) ==
    IF i > Len(sessions) THEN <<>>
    ELSE (IF sessions[i].stderr # "" \/ sessions[i].error # "None"
          THEN << <<"header", i, sessions[i].returncode, "errors">> >>
          ELSE <<>>)
         \o StderrFragments(sessions, i + 1)

BANNER == "PyJail containment pierced: tiny_vmmgr engaged."

\* A banner that is set on every success path.
BannerAlways(sessions) == BANNER

\* lines 795 and 817-819; banner is None when line 795 is reached
BannerFor(sessions) == IF sessions # <<>> THEN BANNER ELSE "None"

FLAG_STORE == "Sorry, this isn't a flag store."

\* A result that is never given the extra line.
NoSuffix(sanitized) == <<>>

\* lines 821-822
FlagSuffix(sanitized) ==
    IF IsSubstring(<<"f", "l", "a", "g">>, Lower(sanitized))
    THEN << <<FLAG_STORE>> >> ELSE <<>>

\* An error that stays None on the success path.
NeverError(stderr) == NoError

\* line 828: None if not stderr_value else stderr_value.strip()
ErrorFromStderr(stderr) == IF stderr = <<>> THEN NoError ELSE stderr

\* lines 795-834
Aggregate(c) ==
    /\ pc[c] = "aggregate"
    /\ ~async_exc[c]
    /\ LET sessions == vm_results[c]
           out == (IF sessions # <<>>
                   THEN stdout_value[c] \o StdoutFragments(sessions, 1)
                   ELSE stdout_value[c]) \o FlagSuffix(Sanitize(code[c]))
           err == IF sessions # <<>>
                  THEN stderr_value[c] \o StderrFragments(sessions, 1)
                  ELSE stderr_value[c]
       IN  /\ stdout_value' = [stdout_value EXCEPT ![c] = out]
           /\ stderr_value' = [stderr_value EXCEPT ![c] = err]
           /\ log' = LogAppend(log, "INFO", c, "User executed sandbox payload successfully.")
           /\ Finish(c, Result("success", out, err, ErrorFromStderr(err),
                               keyword_hits[c], BannerFor(sessions), sessions))
    /\ UNCHANGED <<vm_flag_vars, logged_in, web_requests, response, safe_builtins, helper_attrs, exec_env, spin, banned_keywords, timeout_seconds, asyncPrim, vm_env, code, prog,
                   ip, exc, keyword_hits, vm_queue, stdout_capture,
                   stderr_capture, sys_stdout, sys_stderr, old_stdout,
                   old_stderr, real_stdout, g_enabled, g_expired, g_timer,
                   g_target, timer, timer_tid, async_exc, fired_in_region,
                   vm_results, workers, spawned, flag_dir, flag_next,
                   fake_flag_path, late_timeout>>

----------------------------------------------------------------------------
(* Delivery of the pending asynchronous JailTimeout: the interpreter raises *)
(* it in the target thread at the point that thread has reached.            *)

\* Inside exec: the submitted program may catch it.
DeliverInExec(c) ==
    LET stmts == prog[c].stmts
        cur == IF ip[c] < Len(stmts) THEN stmts[ip[c] + 1] ELSE "end"
    IN  IF cur = "loop_forever"
        THEN UNCHANGED <<pc, ip, exc>>
        ELSE IF cur = "end" \/ prog[c].on_timeout = "propagate"
        THEN /\ RaiseInExec(c, "JailTimeout")
             /\ UNCHANGED ip
        ELSE IF prog[c].on_timeout = "swallow"
        THEN /\ ip' = [ip EXCEPT ![c] = @ + 1]
             /\ UNCHANGED <<pc, exc>>
        ELSE /\ RaiseInExec(c, "ZeroDivisionError")
             /\ UNCHANGED ip

\* run_in_jail from the return of execute_code on (lines 149-200), and lines
\* 577-578 of run_python.  A JailTimeout injected after execute_code returned
\* is raised outside the try of line 147 and leaves run_python.
RunPythonReturn(c) ==
    /\ pc[c] = "done"
    /\ response[c] = NoResponse
    /\ ~async_exc[c]
    /\ IF late_timeout[c]
       THEN /\ response' = [response EXCEPT ![c] = ServerError("JailTimeout")]
            /\ UNCHANGED log
       ELSE LET result == RunInJail(outcome[c])
            IN  /\ response' = [response EXCEPT ![c] =
                       Response(StatusOf(result), result.output, result.error,
                                result.banner)]
                /\ log' = IF outcome[c].kind = "raised" /\ outcome[c].exc = "JailViolation"
                          THEN LogAppend(log, "WARN", c, "log_entry")
                          ELSE log
    /\ UNCHANGED <<vm_flag_vars, logged_in, web_requests, safe_builtins, helper_attrs, exec_env, spin, banned_keywords,
                   timeout_seconds, asyncPrim, vm_env, code, prog, pc, ip, exc,
                   keyword_hits, vm_queue, stdout_capture, stderr_capture,
                   sys_stdout, sys_stderr, old_stdout, old_stderr,
                   real_stdout, g_enabled, g_expired, g_timer, g_target,
                   timer, timer_tid, async_exc, fired_in_region, vm_results,
                   workers, spawned, flag_dir, flag_next, fake_flag_path,
                   stdout_value, stderr_value, outcome, late_timeout>>

\* Inside the with-statement but outside exec: the context manager whose
\* __enter__ or __exit__ was about to run is skipped, the enclosing ones
\* unwind with JailTimeout.
UnwindFrom(p) ==
    IF p = "redir_out" THEN "guard_exit"
    ELSE IF p = "redir_err" THEN "unredir_out"
    ELSE IF p = "unredir_err" THEN "unredir_out"
    ELSE IF p = "unredir_out" THEN "guard_exit"
    ELSE "h_timeout"

DeliverAsyncExc(c) ==
    /\ async_exc[c]
    /\ async_exc' = [async_exc EXCEPT ![c] = FALSE]
    /\ \/ /\ pc[c] = "exec"
          /\ DeliverInExec(c)
          /\ UNCHANGED <<outcome, late_timeout, vm_results, log>>
       \/ /\ pc[c] \in Region \ {"exec"}
          /\ exc' = [exc EXCEPT ![c] = "JailTimeout"]
          /\ pc' = [pc EXCEPT ![c] = UnwindFrom(pc[c])]
          /\ UNCHANGED <<ip, outcome, late_timeout, vm_results, log>>
       \/ \* in an except clause, between the payloads or while aggregating:
          \* nothing catches it
          /\ pc[c] \in {"h_timeout", "h_runtime", "vm_check", "vm_spawn", "aggregate"}
          /\ Finish(c, Raised("JailTimeout"))
          /\ UNCHANGED <<ip, exc, late_timeout, vm_results, log>>
       \/ \* inside the try of lines 639-652: line 667 catches it
          /\ pc[c] = "vm_wait"
          /\ log' = LogAppend(log, "WARN", c, "tiny_vmmgr execution failed")
          /\ SessionDone(c, Session(CurrentPayload(c), "", "exc", "None",
                                    "tiny_vmmgr execution failed"))
          /\ UNCHANGED <<ip, exc, outcome, late_timeout>>
       \/ \* execute_code has returned: it surfaces in the caller
          /\ pc[c] = "done"
          /\ late_timeout' = [late_timeout EXCEPT ![c] = TRUE]
          /\ UNCHANGED <<pc, ip, exc, outcome, vm_results, log>>
    /\ UNCHANGED <<vm_flag_vars, logged_in, web_requests, response, safe_builtins, helper_attrs, exec_env, spin, banned_keywords, timeout_seconds, asyncPrim, vm_env, code, prog,
                   keyword_hits, vm_queue, stdout_capture, stderr_capture,
                   sys_stdout, sys_stderr, old_stdout, old_stderr,
                   real_stdout, g_enabled, g_expired, g_timer, g_target,
                   timer, timer_tid, fired_in_region, workers, spawned,
                   flag_dir, flag_next, fake_flag_path, stdout_value,
                   stderr_value>>

----------------------------------------------------------------------------
(* The specification.                                                      *)

\* The steps of the thread that called execute_code.
CallThread(c) ==
    \/ NextCall(c)
    \/ RequireLogin(c)
    \/ Start(c)
    \/ ViolationLog(c)
    \/ ViolationScan(c)
    \/ ViolationRaise(c)
    \/ Compile(c)
    \/ GuardEnter(c)
    \/ RedirectStdout(c)
    \/ RedirectStderr(c)
    \/ ExecStatement(c)
    \/ RestoreStderr(c)
    \/ RestoreStdout(c)
    \/ GuardExit(c)
    \/ GuardExitCheck(c)
    \/ HandleTimeout(c)
    \/ HandleRuntime(c)
    \/ LaunchVmPayloads(c)
    \/ VmSpawn(c)
    \/ VmWait(c)
    \/ Aggregate(c)
    \/ DeliverAsyncExc(c)
    \/ RunPythonReturn(c)

\* The steps of the call's watchdog thread.
Watchdog(c) ==
    \/ TimerFire(c)
    \/ TimerTrigger(c)
    \/ TimerReadTarget(c)
    \/ TimerInject(c)

Next == \E c \in Calls : CallThread(c) \/ Watchdog(c)

\* The requests, together with the /login and /logout requests of the browser.
NextWeb ==
    \/ Next
    \/ \E valid \in BOOLEAN : Login(valid)
    \/ Logout

\* One call of execute_code.
Spec == Init /\ [][Next]_vars

\* Two concurrent calls of execute_code on one PythonJail.
SpecTwo == InitTwo /\ [][Next]_vars

\* The /run-python requests of a browser that logs in and out.
SpecWeb == InitWeb /\ [][NextWeb]_vars

\* Every thread that can take a step eventually takes one (the interpreter
\* switches threads every few milliseconds; a timer's interval elapses).
FairSpec ==
    Spec /\ \A c \in Calls : WF_vars(CallThread(c)) /\ WF_vars(Watchdog(c))

----------------------------------------------------------------------------
(* The vm flag file and its restore timer (web/app.py).                    *)

\* What the requests for /devs/app and the restore timers leave alone.
jail_vars == <<logged_in, web_requests, response, safe_builtins, helper_attrs,
               exec_env, spin, banned_keywords, timeout_seconds, asyncPrim,
               vm_env, code, prog, pc, ip, exc, keyword_hits, vm_queue,
               stdout_capture, stderr_capture, sys_stdout, sys_stderr,
               old_stdout, old_stderr, real_stdout, g_enabled, g_expired,
               g_timer, g_target, timer, timer_tid, async_exc, fired_in_region,
               vm_results, workers, spawned, flag_dir, flag_next,
               fake_flag_path, stdout_value, stderr_value, outcome,
               late_timeout>>

\* dev_app, lines 591-605, up to the call of _schedule_vm_flag_restore: the
\* session is logged in and the request is not the download (vm = 1).  The
\* write of the override value succeeds, or raises and is recorded by the
\* except clause, which skips the scheduling.
DevAppOverwrite(r) ==
    /\ dev_pc[r] = "idle"
    /\ Admitted(logged_in)
    /\ \/ /\ vm_flag_file' = "override"
          /\ log' = RecordEvent(log, r, "/devs/app overwrite vm_flag")
          /\ dev_pc' = [dev_pc EXCEPT ![r] = "schedule"]
       \/ /\ UNCHANGED vm_flag_file
          /\ log' = RecordEvent(log, r, "/devs/app failed vm_flag overwrite")
          /\ dev_pc' = [dev_pc EXCEPT ![r] = "done"]
    /\ UNCHANGED <<reset_timer, restore, jail_vars>>

\* A schedule whose new Timer is never started.
RescheduledWithoutStart(timers, current, r) ==
    [t \in Requests |-> IF t = current THEN Cancel(timers[t]) ELSE timers[t]]

\* The timers after lines 427-431: the Timer the global refers to, if any, is
\* cancelled, and the Timer of request r is started.
Rescheduled(timers, current, r) ==
    [t \in Requests |-> IF t = r THEN "armed"
                        ELSE IF t = current THEN Cancel(timers[t])
                        ELSE timers[t]]

\* _schedule_vm_flag_restore, lines 425-433: the block that holds
\* _VM_FLAG_TIMER_LOCK, then the recorded line.
ScheduleVmFlagRestore(r) ==
    /\ dev_pc[r] = "schedule"
    /\ restore' = Rescheduled(restore, reset_timer, r)
    /\ reset_timer' = r
    /\ log' = RecordEvent(log, r, "vm flag scheduled reset")
    /\ dev_pc' = [dev_pc EXCEPT ![r] = "done"]
    /\ UNCHANGED <<vm_flag_file, jail_vars>>

\* threading.Timer.run: the interval has elapsed and the timer was not
\* cancelled, so its thread calls _restore.
RestoreFire(r) ==
    /\ restore[r] = "armed"
    /\ restore' = [restore EXCEPT ![r] = "running"]
    /\ UNCHANGED <<vm_flag_file, reset_timer, dev_pc, log, jail_vars>>

\* _restore_vm_flag_to_default, lines 409-415: the write of the default
\* value succeeds, or raises and is recorded by the except clause.
RestoreWrite(r) ==
    /\ restore[r] = "running"
    /\ \/ /\ vm_flag_file' = "default"
          /\ log' = RecordEvent(log, r, "vm flag auto-restore")
       \/ /\ UNCHANGED vm_flag_file
          /\ log' = RecordEvent(log, r, "vm flag auto-restore failed")
    /\ restore' = [restore EXCEPT ![r] = "written"]
    /\ UNCHANGED <<reset_timer, dev_pc, jail_vars>>

\* _restore_vm_flag_to_default, lines 416-418: the finally clause
RestoreClear(r) ==
    /\ restore[r] = "written"
    /\ reset_timer' = 0
    /\ restore' = [restore EXCEPT ![r] = "finished"]
    /\ UNCHANGED <<vm_flag_file, dev_pc, log, jail_vars>>

\* The thread of a /devs/app request.
DevApp(r) == DevAppOverwrite(r) \/ ScheduleVmFlagRestore(r)

\* The thread of the Timer started for request r.
RestoreTimer(r) == RestoreFire(r) \/ RestoreWrite(r) \/ RestoreClear(r)

NextFlag == \E r \in Requests : DevApp(r) \/ RestoreTimer(r)

\* A server that no /run-python request reaches, in a logged-in session.
InitFlag ==
    /\ banned_keywords = InitBannedKeywords(<<>>)
    /\ timeout_seconds = 1
    /\ asyncPrim = "ok"
    /\ code = [c \in Calls |-> CleanText]
    /\ prog = [c \in Calls |-> ConcurrentProgram]
    /\ vm_env = [c \in Calls |-> [binary |-> TRUE, runs |-> <<"exit0">>]]
    /\ flag_dir = {}
    /\ pc = [c \in Calls |-> "idle"]
    /\ log = <<>>
    /\ logged_in = TRUE
    /\ InitCommon

\* The /devs/app requests and the restore timers.
SpecFlag == InitFlag /\ [][NextFlag]_vars

\* A request that has arrived runs to its end and a started timer's thread
\* runs; whether a request arrives at all is up to the browser.
FairSpecFlag ==
    /\ SpecFlag
    /\ \A r \in Requests : /\ WF_vars(ScheduleVmFlagRestore(r))
                            /\ WF_vars(RestoreTimer(r))

----------------------------------------------------------------------------
(* Properties.                                                             *)

\* `term` occurs in `text` when letter case is ignored.
OccursIgnoringCase(term, text) ==
    \E i \in 1..Len(text) :
        /\ i + Len(term) - 1 <= Len(text)
        /\ \A j \in 1..Len(term) : LowerChar(text[i + j - 1]) = LowerChar(term[j])

\* The configured terms that occur in `text`.
TermsIn(text) ==
    {banned_keywords[k] : k \in
        {n \in 1..Len(banned_keywords) : OccursIgnoringCase(banned_keywords[n], text)}}

\* The positions of execute_code from compilation on.
Running ==
    {"compile", "guard_enter", "redir_out", "redir_err", "exec", "unredir_err",
     "unredir_out", "guard_exit", "guard_exit2", "h_timeout", "h_runtime",
     "vm_check", "vm_spawn", "vm_wait", "aggregate"}

\* Nothing of the submitted code was compiled, run, captured, queued or
\* handed to the worker.
NothingRan(c) ==
    /\ pc[c] \notin Running
    /\ outcome[c].kind # "result"
    /\ ip[c] = 0
    /\ vm_queue[c] = <<>>
    /\ vm_results[c] = <<>>
    /\ spawned[c] = 0
    /\ timer[c] = "none"
    /\ stdout_capture[c] = <<>>
    /\ stderr_capture[c] = <<>>

\* C1: when the filter finds a forbidden term in the submitted code, nothing
\* of the code is compiled or executed, no payload is queued, no worker is
\* launched, and the call ends by raising JailViolation with nothing captured.
C1_FilterMatchRunsNothing ==
    \A c \in Calls :
        /\ TermsIn(Sanitize(code[c])) # {} => NothingRan(c)
        /\ keyword_hits[c] # <<>> =>
              /\ NothingRan(c)
              /\ pc[c] = "done" =>
                    /\ outcome[c].kind = "raised"
                    /\ outcome[c].exc = "JailViolation"
                    /\ outcome[c].stdout = <<>>
                    /\ outcome[c].vm_sessions = <<>>

C1_Witness ==
    \E c \in Calls :
        /\ pc[c] = "done"
        /\ keyword_hits[c] # <<>>
        /\ outcome[c].exc = "JailViolation"

C3_OnlyViolationIsRaised ==
    \A c \in Calls :
        (~HasHook(Sanitize(code[c])) /\ outcome[c].kind = "raised") =>
            outcome[c].exc = "JailViolation"

\* The sessions of a result match the call's queue, one to one and in order.
SessionsMatchQueue(sessions, queue) ==
    /\ Len(sessions) = Len(queue)
    /\ \A i \in 1..Len(sessions) : sessions[i].payload = queue[i]

\* C4 as stated: in every result, whatever the path, the sessions match the
\* payloads vm_escape accepted into the call's queue.
C4_SessionsMatchQueueOnEveryPath ==
    \A c \in Calls :
        outcome[c].kind = "result" =>
            SessionsMatchQueue(outcome[c].vm_sessions, vm_queue[c])

\* C4, amended: in a result of the success path the sessions match the
\* queued payloads one to one and in order; in a result of the compile,
\* runtime and timeout paths there are no sessions and the queued payloads
\* were never run; at no time does a session exist without its payload.
C4_SessionsMatchQueueOnSuccess ==
    \A c \in Calls :
        /\ Len(vm_results[c]) <= Len(vm_queue[c])
        /\ \A i \in 1..Len(vm_results[c]) : vm_results[c][i].payload = vm_queue[c][i]
        /\ outcome[c].kind = "result" =>
              IF outcome[c].path = "success"
              THEN SessionsMatchQueue(outcome[c].vm_sessions, vm_queue[c])
              ELSE outcome[c].vm_sessions = <<>> /\ spawned[c] = 0

C4_Witness ==
    \E c \in Calls :
        /\ outcome[c].kind = "result"
        /\ outcome[c].path = "success"
        /\ Len(outcome[c].vm_sessions) = 2
        /\ ~vm_env[c].binary

\* C5: once the watchdog has expired while the protected code was still
\* running, the call ends with the timeout error, also when the protected
\* code then finishes normally or raises another exception.
C5_TimeoutWinsOnceFired ==
    \A c \in Calls :
        (pc[c] = "done" /\ fired_in_region[c]) =>
            \/ outcome[c].path = "timeout"
            \/ outcome[c].exc = "JailTimeout"


C6_Started(c) ==
    pc[c] = "start" /\ timeout_seconds > 0 /\ asyncPrim = "ok"

\* C6: with the timeout enabled and the interruption primitive working,
\* every execute_code call returns, whatever the submitted code does with
\* the injected JailTimeout.
C6_EveryCallReturns ==
    \A c \in Calls : C6_Started(c) ~> (pc[c] = "done")

\* C7: on every way of leaving the guarded region __exit__ cancels the timer
\* and clears the timer and target-thread handles, so that once execute_code
\* has returned no watchdog of the call is waiting to expire, holds the
\* caller's thread id, or has an interruption pending on the caller.
C7_NoWatchdogAfterReturn ==
    \A c \in Calls :
        (pc[c] = "done" /\ timer[c] # "none") =>
            /\ g_timer[c] = "None"
            /\ g_target[c] = "None"
            /\ timer[c] \notin {"armed", "tid_read"}
            /\ ~async_exc[c]

\* The lines that print calls of the program of `c` wrote.
PrintedBy(c) ==
    [i \in 1..Cardinality({n \in 1..ip[c] : prog[c].stmts[n] \in {"print", "use"}})
        |-> <<"print", c>>]

\* C8: the stdout of a call's result holds the output of that call's code
\* only, also while another call runs on the same jail.
C8_StdoutIsOwnOutput ==
    \A c \in Calls :
        (outcome[c].kind = "result" /\ outcome[c].path = "success") =>
            SelectSeq(outcome[c].stdout, LAMBDA line : line[1] = "print") = PrintedBy(c)

\* Every byte of the payload was passed to vm_escape by the code of `c`.
OwnPayload(c, payload) ==
    \A i \in 1..Len(payload) : payload[i] = Tag(c)

\* C9: with two calls running on one jail, every payload in a call's queue,
\* and every payload a session of that call ran, was queued by that call's
\* own code; a call whose code queued nothing has an empty queue.
C9_QueueIsOwnPayloads ==
    \A c \in Calls :
        /\ \A i \in 1..Len(vm_queue[c]) : OwnPayload(c, vm_queue[c][i])
        /\ \A i \in 1..Len(vm_results[c]) : OwnPayload(c, vm_results[c][i].payload)
        /\ \A i \in 1..Len(outcome[c].vm_sessions) :
              OwnPayload(c, outcome[c].vm_sessions[i].payload)
        /\ Len(vm_queue[c]) <=
              Cardinality({n \in 1..ip[c] : prog[c].stmts[n] \in EscStatements})

C9_Witness ==
    /\ \A c \in Calls :
          /\ outcome[c].kind = "result"
          /\ Len(outcome[c].vm_sessions) = 1
    /\ sys_stdout = "real"

\* The statement the code of `c` is about to run is a vm_escape call whose
\* normalized payload is empty or longer than VM_PAYLOAD_LIMIT.
AtBadEscape(c) ==
    /\ pc[c] = "exec"
    /\ ~async_exc[c]
    /\ ip[c] < Len(prog[c].stmts)
    /\ prog[c].stmts[ip[c] + 1] \in {"esc_empty", "esc_big"}

C10_QueueInBounds ==
    \A c \in Calls :
        \A i \in 1..Len(vm_queue[c]) :
            Len(vm_queue[c][i]) >= 1 /\ Len(vm_queue[c][i]) <= VM_PAYLOAD_LIMIT

C10_BadEscapeStep ==
    \A c \in Calls :
        (AtBadEscape(c) /\ pc'[c] # "exec") =>
            /\ exc'[c] = "ValueError"
            /\ vm_queue' = vm_queue

\* C10: every payload in a queue is between 1 and VM_PAYLOAD_LIMIT bytes
\* long, and a vm_escape call whose normalized payload is empty or longer
\* fails with ValueError and leaves the queue as it was.
C10_PayloadSizeEnforced ==
    [](C10_QueueInBounds) /\ [][C10_BadEscapeStep]_vars

C10_Witness ==
    \E c \in Calls :
        /\ exc[c] = "ValueError"
        /\ Len(vm_queue[c]) = 1
        /\ prog[c].stmts = <<"esc", "esc_big">>


\* The session the harness records for a payload when the binary is absent.
IsMissingSession(session) ==
    /\ session.error = MISSING
    /\ session.stderr = MISSING
    /\ session.stdout = ""
    /\ session.returncode = "None"

\* C11: when the worker binary does not exist the harness spawns no process
\* and returns one session per queued payload, each with the missing-binary
\* error and no exit status, and execute_code returns its result normally.
C11_MissingBinaryYieldsFailureSessions ==
    \A c \in Calls :
        ~vm_env[c].binary =>
            /\ spawned[c] = 0
            /\ pc[c] \notin {"vm_spawn", "vm_wait"}
            /\ vm_results[c] # <<>> =>
                  /\ Len(vm_results[c]) = Len(vm_queue[c])
                  /\ \A i \in 1..Len(vm_results[c]) : IsMissingSession(vm_results[c][i])
                  /\ pc[c] = "done" =>
                        /\ outcome[c].kind = "result"
                        /\ outcome[c].path = "success"
                        /\ outcome[c].vm_sessions = vm_results[c]

C11_Witness ==
    \E c \in Calls :
        /\ ~vm_env[c].binary
        /\ pc[c] = "done"
        /\ Len(outcome[c].vm_sessions) = 2
        /\ \A i \in 1..2 : IsMissingSession(outcome[c].vm_sessions[i])


\* The workers the harness of `c` started for its first k payloads.
Started(c, k) ==
    Cardinality({i \in 1..k : vm_env[c].runs[i] \notin {"vanished", "spawn_error"}})

ErrorFor(run) ==
    IF run = "exit0" THEN "None"
    ELSE IF run = "exit1" THEN "tiny_vmmgr exited with code 1"
    ELSE IF run = "hang" THEN VM_TIMED_OUT
    ELSE IF run = "vanished" THEN "tiny_vmmgr missing"
    ELSE "tiny_vmmgr execution failed"

\* C13: a failure while spawning or talking to the worker for one payload is
\* recorded as the error of that payload's session, no exception leaves the
\* harness, and every later queued payload is still processed.
C13_HarnessFailuresStayInSessions ==
    \A c \in Calls :
        /\ \A i \in 1..Len(vm_results[c]) :
              vm_results[c][i].error =
                  IF vm_env[c].binary THEN ErrorFor(vm_env[c].runs[i]) ELSE MISSING
        /\ (pc[c] = "done" /\ vm_results[c] # <<>>) =>
              /\ outcome[c].kind = "result"
              /\ outcome[c].path = "success"
              /\ outcome[c].vm_sessions = vm_results[c]
              /\ Len(vm_results[c]) = Len(vm_queue[c])

C13_Witness ==
    \E c \in Calls :
        /\ pc[c] = "done"
        /\ Len(outcome[c].vm_sessions) = 2
        /\ outcome[c].vm_sessions[1].error = "tiny_vmmgr execution failed"
        /\ outcome[c].vm_sessions[2].returncode = "0"


\* C14: when a worker does not finish within the harness timeout the harness
\* kills it and records a session whose error is the timeout message, with
\* the output collected from the worker, and the worker is no longer running
\* when its session is recorded.
C14_HungWorkerIsKilled ==
    \A c \in Calls :
        /\ pc[c] # "vm_wait" => workers[c] = 0
        /\ \A i \in 1..Len(vm_results[c]) :
              (vm_env[c].binary /\ vm_env[c].runs[i] = "hang") =>
                  /\ vm_results[c][i].error = VM_TIMED_OUT
                  /\ vm_results[c][i].stdout = "part"
                  /\ vm_results[c][i].returncode = "-9"

C14_Witness ==
    \E c \in Calls :
        /\ vm_env[c].runs = <<"hang", "hang">>
        /\ Len(vm_results[c]) = 1
        /\ vm_results[c][1].error = VM_TIMED_OUT
        /\ pc[c] = "vm_spawn"
        /\ workers[c] = 0


\* C15: in every ExecutionResult execute_code returns, the banner is set if
\* and only if vm_sessions holds at least one session.
C15_BannerIffSessions ==
    \A c \in Calls :
        outcome[c].kind = "result" =>
            (outcome[c].banner # "None" <=> outcome[c].vm_sessions # <<>>)

C15_Witness ==
    \E c \in Calls :
        /\ outcome[c].kind = "result"
        /\ outcome[c].banner = BANNER
        /\ Len(outcome[c].vm_sessions) = 1
        /\ outcome[c].vm_sessions[1].error # "None"


\* The session ended with nothing on stderr and no error.
QuietSession(session) == session.stderr = "" /\ session.error = "None"

\* C16 as stated: a result of the success path (the code completed within
\* the budget and raised nothing) has no error, whatever the harness did
\* with the queued payloads.
C16_NoErrorUnlessCodeRaised ==
    \A c \in Calls :
        (outcome[c].kind = "result" /\ outcome[c].path = "success") =>
            outcome[c].error = NoError

\* C16, amended: in a result of the success path the error is None exactly
\* when no payload was queued or every harness session ended with nothing
\* on stderr and no error; otherwise the error is the result's stderr text,
\* which holds the failed sessions' headers.
C16_ErrorMirrorsStderr ==
    \A c \in Calls :
        (outcome[c].kind = "result" /\ outcome[c].path = "success") =>
            LET sessions == outcome[c].vm_sessions
            IN  /\ outcome[c].error = NoError <=>
                      \A i \in 1..Len(sessions) : QuietSession(sessions[i])
                /\ outcome[c].error # NoError =>
                      /\ outcome[c].error = outcome[c].stderr
                      /\ \A i \in 1..Len(sessions) :
                            ~QuietSession(sessions[i]) <=>
                                \E k \in 1..Len(outcome[c].stderr) :
                                    outcome[c].stderr[k][2] = i

C16_Witness ==
    \E c \in Calls :
        /\ outcome[c].kind = "result"
        /\ outcome[c].path = "success"
        /\ Len(outcome[c].vm_sessions) = 2
        /\ QuietSession(outcome[c].vm_sessions[1])
        /\ outcome[c].vm_sessions[2].returncode = "1"
        /\ outcome[c].error # NoError


\* The call ended on the success path and its code queued no payload.
PlainSuccess(c) ==
    /\ outcome[c].kind = "result"
    /\ outcome[c].path = "success"
    /\ vm_queue[c] = <<>>

\* C17 as stated: when the code completes within the budget and queues no
\* payload, the result's stdout is exactly the text the code printed.
C17_StdoutIsPrintedText ==
    \A c \in Calls : PlainSuccess(c) => outcome[c].stdout = PrintedBy(c)

\* C17, amended: when the code completes within the budget and queues no
\* payload, the result's stdout is the text the code printed, followed by
\* the line "Sorry, this isn't a flag store." when the submitted text
\* contains "flag" in any letter case, and by nothing otherwise.
C17_StdoutIsPrintedTextPlusFlagLine ==
    \A c \in Calls :
        PlainSuccess(c) =>
            outcome[c].stdout =
                PrintedBy(c) \o
                (IF OccursIgnoringCase(<<"f", "l", "a", "g">>, code[c])
                 THEN << <<FLAG_STORE>> >> ELSE <<>>)

C17_Witness ==
    \E c \in Calls :
        /\ PlainSuccess(c)
        /\ code[c] = <<"F", "l", "a", "g">>
        /\ outcome[c].stdout = << <<"print", c>>, <<FLAG_STORE>> >>


\* The result was built by the compile, runtime or timeout handler.
FailureResult(c) ==
    /\ outcome[c].kind = "result"
    /\ outcome[c].path \in {"compile", "runtime", "timeout"}

\* The fields of a failure result: an error of the form
\* "<KindName>: <detail>" (the guard's message on a timeout), the error
\* written to stderr, and the output captured up to the failure as stdout.
FailureFields(c) ==
    /\ outcome[c].error # NoError
    /\ outcome[c].path = "timeout" => outcome[c].error = <<TIMEOUT_MESSAGE>>
    /\ outcome[c].path = "compile" =>
          /\ Len(outcome[c].error) = 3
          /\ outcome[c].error[1] = "SyntaxError"
          /\ outcome[c].error[2] = ": "
    /\ outcome[c].path = "runtime" =>
          /\ Len(outcome[c].error) = 3
          /\ outcome[c].error[1] = exc[c]
          /\ outcome[c].error[2] = ": "
    /\ outcome[c].stderr # <<>>
    /\ outcome[c].stderr[Len(outcome[c].stderr)][1] = "error"
    /\ outcome[c].stdout = stdout_capture[c]
    /\ real_stdout = <<>>
    /\ prog[c].on_timeout = "propagate" => outcome[c].stdout = PrintedBy(c)

\* The call met a compile failure, or its guarded region ended with an
\* exception.
Failed(c) ==
    \/ code[c] = CleanText /\ prog[c] = SYNTAX_ERROR /\ pc[c] = "done"
    \/ exc[c] # "None" /\ pc[c] = "done"

\* C18: on a compile failure, on a runtime exception and on a timeout
\* execute_code returns an ExecutionResult whose error is non-empty (of the
\* form "<KindName>: <detail>" for compile and runtime failures), whose
\* stderr is non-empty and whose stdout is the output captured up to the
\* failure.
C18_FailuresReturnResults ==
    \A c \in Calls :
        /\ Failed(c) => FailureResult(c)
        /\ FailureResult(c) => FailureFields(c)


\* C19: when timeout_seconds is zero or negative the guard is disabled:
\* entering the guarded region starts no watchdog timer, the guard never
\* becomes expired, and no timeout is produced for the call.
C19_DisabledGuardNeverTimesOut ==
    timeout_seconds <= 0 =>
        \A c \in Calls :
            /\ ~g_enabled[c]
            /\ timer[c] = "none"
            /\ g_timer[c] = "None"
            /\ g_target[c] = "None"
            /\ ~g_expired[c]
            /\ ~async_exc[c]
            /\ exc[c] # "JailTimeout"
            /\ outcome[c].path # "timeout"
            /\ outcome[c].exc # "JailTimeout"

C19_Witness ==
    \E c \in Calls :
        /\ timeout_seconds = 0
        /\ pc[c] = "exec"
        /\ prog[c].stmts = <<"print", "loop_forever">>
        /\ spin[c] = 1


\* `term` itself, as configured, occurs in the lower-cased text.
OccursInLowered(term, text) ==
    \E i \in 1..Len(text) :
        /\ i + Len(term) - 1 <= Len(text)
        /\ \A j \in 1..Len(term) : LowerChar(text[i + j - 1]) = term[j]

\* The position of a configured term in the filter's order.
PositionOf(term) == CHOOSE k \in 1..Len(banned_keywords) : banned_keywords[k] = term

\* The filter has answered for the call's sanitized text.
Filtered(c) == pc[c] \notin {"idle", "queued", "request", "rejected", "start"} /\ ~HasHook(Sanitize(code[c]))

\* `hits` holds every term once, in the filter's configured order.
InConfiguredOrder(hits) ==
    \A i, j \in 1..Len(hits) : i < j => PositionOf(hits[i]) < PositionOf(hits[j])

\* C20 as stated: the filter returns exactly the configured terms that occur
\* as a substring of the lower-cased text, each once, in configured order.
C20_ReturnsTermsOccurringInLoweredText ==
    \A c \in Calls :
        Filtered(c) =>
            /\ SeqToSet(keyword_hits[c]) =
                  {banned_keywords[k] : k \in
                      {n \in 1..Len(banned_keywords) :
                          OccursInLowered(banned_keywords[n], Sanitize(code[c]))}}
            /\ InConfiguredOrder(keyword_hits[c])

\* C20, amended: the filter returns exactly the configured terms (defaults
\* plus operator additions, without duplicates) whose lower-cased form
\* occurs in the lower-cased text, each once and in the form it was
\* configured in, in the filter's configured order; the result is empty if
\* and only if no configured term occurs in that sense.
C20_ReturnsTermsOccurringIgnoringCase ==
    /\ \A i, j \in 1..Len(banned_keywords) :
          i # j => banned_keywords[i] # banned_keywords[j]
    /\ SeqToSet(DEFAULT_BANNED_KEYWORDS) \subseteq SeqToSet(banned_keywords)
    /\ \A c \in Calls :
          Filtered(c) =>
              /\ SeqToSet(keyword_hits[c]) = TermsIn(Sanitize(code[c]))
              /\ Len(keyword_hits[c]) = Cardinality(TermsIn(Sanitize(code[c])))
              /\ InConfiguredOrder(keyword_hits[c])
              /\ keyword_hits[c] = <<>> <=> TermsIn(Sanitize(code[c])) = {}

C20_Witness ==
    \E c \in Calls :
        /\ Len(banned_keywords) = 4
        /\ code[c] = <<"s", "y", "s", " ", "o", "s">>
        /\ keyword_hits[c] = << <<"o", "s">>, <<"s", "y", "s">> >>



\* Call `c` leaves drop_fake_flag in this step.
DropsFlag(c) == pc[c] = "viol_write" /\ pc'[c] = "done"

C21_NextDecoyStep ==
    \A c \in Calls :
        DropsFlag(c) =>
            \E n \in 0..(Max(flag_dir \cup {1}) + 1) :
                /\ n \notin flag_dir
                /\ flag_dir # {} => n = Max(flag_dir) + 1
                /\ flag_dir' = flag_dir \cup {n}

C21_DecoyStep ==
    \A c \in Calls :
        DropsFlag(c) =>
            LET n == flag_next[c]
            IN  /\ n \in {Max(flag_dir \cup {1}) + 1, FALLBACK_INDEX}
                /\ flag_dir' \in {flag_dir, flag_dir \cup {n}}
                /\ flag_dir' # flag_dir => fake_flag_path' = n
                /\ n # FALLBACK_INDEX => \A m \in flag_dir : m < n

Anon(lines) ==
    [i \in 1..Len(lines) |-> IF lines[i][1] = "print" THEN <<"print">> ELSE lines[i]]

\* C22: identical code without forbidden terms, submitted again to the same
\* PythonJail, returns the same stdout and the same error: no earlier call
\* changes what a later identical call returns.
C22_IdenticalCodeSameResult ==
    \A c, d \in Calls :
        ( /\ outcome[c].kind = "result"
          /\ outcome[d].kind = "result"
          /\ code[c] = code[d]
          /\ prog[c] = prog[d]
          /\ TermsIn(Sanitize(code[c])) = {} ) =>
            /\ Anon(outcome[c].stdout) = Anon(outcome[d].stdout)
            /\ outcome[c].error = outcome[d].error



\* The names the code of `c` has bound so far.
BoundBy(c) ==
    IF \E n \in 1..ip[c] : prog[c].stmts[n] = "bind" THEN {"x"} ELSE {}

\* C23: every call builds its own namespace, builtins table, locals table
\* and escalation queue: a call that has not reached that point has none of
\* them, a call's tables hold the fixed names and the names its own code
\* bound, a name bound by an earlier call is undefined in a later call, and
\* the class-level SAFE_BUILTINS table keeps its names.
C23_EachCallHasOwnNamespace ==
    /\ safe_builtins = SAFE_BUILTINS
    /\ \A c \in Calls :
          /\ pc[c] \in {"idle", "queued", "request", "rejected", "start"} =>
                exec_env[c] = NoEnvironment /\ vm_queue[c] = <<>>
          /\ exec_env[c] # NoEnvironment =>
                /\ exec_env[c].globals = SAFE_GLOBALS
                /\ exec_env[c].builtins = SAFE_BUILTINS
          /\ exec_env[c].locals = BoundBy(c)
          /\ (pc[c] = "done" /\ prog[c] = UseProgram /\ outcome[c].kind = "result"
                /\ outcome[c].path # "timeout") =>
                /\ outcome[c].path = "runtime"
                /\ outcome[c].error = HumanError("NameError")
                /\ outcome[c].stdout = <<>>

C23_Witness ==
    /\ pc["A"] = "done"
    /\ prog["A"] = BindProgram
    /\ exec_env["A"].locals = {"x"}
    /\ outcome["A"].stdout = << <<"print", "A">> >>
    /\ pc["B"] = "done"
    /\ prog["B"] = UseProgram
    /\ exec_env["B"].locals = {}
    /\ outcome["B"].error = HumanError("NameError")



\* The watchdog of `c` has run past line 156.
Triggered(c) == timer[c] \in {"expired_set", "tid_read"}

\* C24: when the watchdog fires and the interrupt cannot be delivered (no
\* primitive, or it reports zero or several threads), the guard still
\* records the expiry, and once the protected code has left the region the
\* caller gets the timeout error, not a success result.
C24_UndeliveredTimeoutStillReported ==
    asyncPrim # "ok" =>
        \A c \in Calls :
            /\ ~async_exc[c]
            /\ Triggered(c) => g_expired[c]
            /\ fired_in_region[c] => g_expired[c]
            /\ (pc[c] = "done" /\ fired_in_region[c]) =>
                  /\ outcome[c].kind = "result"
                  /\ outcome[c].path = "timeout"
                  /\ outcome[c].error = <<TIMEOUT_MESSAGE>>


----------------------------------------------------------------------------
(* C25: iterable payloads of vm_escape.                                     *)

\* The list the code of `c` has passed to vm_escape so far, if any.
IterPassed(c) ==
    {IterArg(prog[c].stmts[n], c) :
        n \in {k \in 1..Len(prog[c].stmts) :
                  /\ prog[c].stmts[k] \in IterStatements
                  /\ \/ k <= ip[c]
                     \/ k = ip[c] + 1 /\ exc[c] \in {"ValueError", "TypeError"}}}

IsByteInteger(item) == item.t = "int" /\ 0 <= item.v /\ item.v <= 255

AllByteIntegers(items) == \A i \in 1..Len(items) : IsByteInteger(items[i])

ValuesOf(items) == [i \in 1..Len(items) |-> items[i].v]

\* C25: a list passed to vm_escape is queued only if every element is an
\* integer in 0..255, and then as exactly those values in order; a list with
\* an element that is not an integer, or is out of range, queues nothing.
C25_IterableMustBeByteIntegers ==
    \A c \in Calls : \A items \in IterPassed(c) :
        IF AllByteIntegers(items)
        THEN vm_queue[c] \in {<<>>, <<ValuesOf(items)>>}
        ELSE vm_queue[c] = <<>>


----------------------------------------------------------------------------
(* C26: lines of the bait log under concurrent calls.                       *)

LOG_LEVELS == {"BAIT", "WARN", "INFO"}

\* The complete line of one event of one call that has started.
IsEventLine(line) ==
    /\ Len(line) = 3
    /\ line[1] \in LOG_LEVELS \cup {"EVENT"}
    /\ line[2] \in Calls
    /\ pc[line[2]] \notin {"idle", "queued", "request"}

\* C26: with calls writing to the bait log at the same time, every step that
\* changes the log appends the complete line of exactly one event of one
\* call and leaves the lines already in the file as they were.
C26_LogStep ==
    log' # log =>
        /\ Len(log') = Len(log) + 1
        /\ SubSeq(log', 1, Len(log)) = log
        /\ LET line == log'[Len(log')]
           IN  /\ Len(line) = 3
               /\ line[1] \in LOG_LEVELS \cup {"EVENT"}
               /\ line[2] \in Calls
               /\ pc[line[2]] \notin {"idle", "queued"}
               /\ response[line[2]] = NoResponse

----------------------------------------------------------------------------
(* C27: the status run_python answers with.                                 *)

\* run_python has answered the request of call c.
Answered(c) == response[c] # NoResponse

\* C27: run_python answers 400 exactly when the dictionary of run_in_jail
\* has a non-empty error and 200 otherwise; code that matched the filter is
\* answered 400 with the deterrence banner and an empty output.
C27_StatusFollowsError ==
    \A c \in Calls :
        Answered(c) =>
            /\ response[c].status =
                  IF RunInJail(outcome[c]).error # NoError THEN 400 ELSE 200
            /\ keyword_hits[c] # <<>> =>
                  /\ response[c].status = 400
                  /\ response[c].output = <<>>
                  /\ response[c].banner =
                        <<HoneypotComment(keyword_hits[c][1]),
                          "Fake flag dispensed for archival joy.">>


----------------------------------------------------------------------------
(* C28: the watchdog and the end of the guarded region.                     *)

\* C28: the watchdog sets a JailTimeout on a thread only while that thread
\* is inside the guarded region, and no JailTimeout is raised in a thread
\* outside the timeout handler: none leaves execute_code and none is raised
\* after execute_code has returned.
C28_InjectionStep ==
    \A c \in Calls :
        /\ (~async_exc[c] /\ async_exc'[c]) => pc[c] \in Region
        /\ ~late_timeout'[c]
        /\ outcome'[c].exc # "JailTimeout"

C28_NoInjectionOutsideRegion == [][C28_InjectionStep]_vars


----------------------------------------------------------------------------
(* C29: the process-wide streams after the calls.                           *)

\* Every call that was made has returned.
AllReturned == \A c \in Calls : pc[c] \in {"done", "idle"}

\* C29: once every execute_code call has returned, also when calls
\* overlapped on different threads, sys.stdout and sys.stderr are the
\* streams that were installed before the calls started.
C29_StreamsRestoredAfterCalls ==
    AllReturned => (sys_stdout = "real" /\ sys_stderr = "real")


----------------------------------------------------------------------------
(* C30: vm_escape and the start of the harness.                             *)

HarnessPositions == {"vm_check", "vm_spawn", "vm_wait"}

\* C30: a vm_escape call of the running code only appends one payload to the
\* call's queue; no tiny_vmmgr process is spawned and no session is built
\* while the call is inside the guarded region; the harness works on the
\* queue only after the region was left with no exception in flight.
C30_HarnessStep ==
    \A c \in Calls :
        /\ (pc[c] = "exec" /\ vm_queue'[c] # vm_queue[c]) =>
              /\ Len(vm_queue'[c]) = Len(vm_queue[c]) + 1
              /\ SubSeq(vm_queue'[c], 1, Len(vm_queue[c])) = vm_queue[c]
              /\ spawned'[c] = spawned[c]
              /\ workers'[c] = workers[c]
              /\ vm_results'[c] = vm_results[c]
        /\ (spawned'[c] # spawned[c] \/ vm_results'[c] # vm_results[c]) =>
              /\ pc[c] \in HarnessPositions
              /\ exc[c] = "None"
        /\ pc'[c] \in Region =>
              /\ spawned'[c] = 0
              /\ vm_results'[c] = <<>>
        /\ pc'[c] \in HarnessPositions => exc'[c] = "None"

C30_HarnessStartsAfterRegion == [][C30_HarnessStep]_vars

\* A worker runs for a payload the code queued, after the region was left.
C30_Witness ==
    \E c \in Calls :
        /\ pc[c] = "vm_wait"
        /\ workers[c] = 1
        /\ spawned[c] = 1
        /\ vm_queue[c] # <<>>
        /\ exc[c] = "None"


----------------------------------------------------------------------------
(* C31: the states of a TimeoutGuard.                                       *)

\* The state of the guard of call c, read from its fields: expired once
\* _expired is set, armed while _timer holds the started timer, disarmed
\* once __exit__ has cleared _timer, idle before __enter__ (and for a
\* disabled guard, always).
GuardState(c) ==
    IF g_expired[c] THEN "expired"
    ELSE IF g_timer[c] = "Timer" THEN "armed"
    ELSE IF timer[c] = "none" THEN "idle"
    ELSE "disarmed"

GuardMoves == {<<"idle", "armed">>, <<"armed", "expired">>, <<"armed", "disarmed">>}

\* C31: a guard only moves idle -> armed -> expired or idle -> armed ->
\* disarmed; the watchdog sets the expiry at most once, a cancel after the
\* timer has fired changes nothing of the timer thread, and a guard whose
\* timer was cancelled while still waiting never becomes expired.
C31_GuardStep ==
    \A c \in Calls :
        /\ GuardState(c)' # GuardState(c) =>
              <<GuardState(c), GuardState(c)'>> \in GuardMoves
        /\ g_expired[c] => g_expired'[c]
        /\ timer[c] \in {"cancelled", "finished"} => timer'[c] = timer[c]
        /\ timer[c] = "cancelled" => ~g_expired'[c]

C31_GuardMovesOnlyForward == [][C31_GuardStep]_vars


----------------------------------------------------------------------------
(* C32: decoy files of two concurrent violations.                           *)

\* Both calls matched the filter and have ended.
BothViolated ==
    \A c \in Calls : pc[c] = "done" /\ outcome[c].exc = "JailViolation"

\* C32: when two calls that match the filter run at the same time, each
\* writes its own new decoy file: after both have ended the directory holds
\* two new files, the two calls used distinct numbers, and neither wrote
\* over the other's file.
C32_ConcurrentDecoysAreDistinct ==
    BothViolated =>
        /\ flag_next["A"] # flag_next["B"]
        /\ {flag_next["A"], flag_next["B"]} \subseteq flag_dir
        /\ Cardinality(flag_dir) = 2


----------------------------------------------------------------------------
(* C33: code that contains "hook(".                                         *)

\* Call c was made with code whose sanitized text contains "hook(".
HookCall(c) ==
    /\ pc[c] \notin {"idle", "queued", "request", "rejected", "start"}
    /\ IsSubstring(<<"h", "o", "o", "k", "(">>, Sanitize(code[c]))

\* C33: for code whose sanitized text contains "hook(", execute_code raises
\* NameError before the filter runs: execute_code has written no line to
\* the bait log, computed and written no decoy, built no environment, run no
\* statement and started no watchdog; run_in_jail answers with an error
\* dictionary (status 400) instead of letting the NameError through.
C33_HookRaisesNameErrorFirst ==
    \A c \in Calls :
        HookCall(c) =>
            /\ pc[c] = "done"
            /\ outcome[c] = Raised("NameError")
            /\ keyword_hits[c] = <<>>
            /\ \A i \in 1..Len(log) : log[i][2] = c => log[i][1] \notin LOG_LEVELS
            /\ flag_next[c] = 0
            /\ exec_env[c] = NoEnvironment
            /\ ip[c] = 0 /\ vm_queue[c] = <<>> /\ spawned[c] = 0
            /\ timer[c] = "none"
            /\ Answered(c) =>
                  response[c] =
                      Response(400, <<>>,
                               <<"PyJail encountered an unexpected issue: ", "NameError">>,
                               "PyJail sputtered. Logs captured the chaos.")

\* Code with "hook(" and a forbidden term was answered.
C33_Witness ==
    \E c \in Calls :
        /\ HookCall(c)
        /\ TermsIn(Sanitize(code[c])) # {}
        /\ Answered(c)
        /\ response[c].status = 400
        /\ flag_dir = {}
        /\ log = << <<"EVENT", c, "pyjail execution requested">> >>


----------------------------------------------------------------------------
(* C34: who may run code.                                                   *)

\* The /login and /logout requests that changed the session, as the log
\* recorded them.
SessionEvents ==
    {i \in 1..Len(log) :
        log[i][2] = "web" /\ log[i][3] \in {"login success", "logout"}}

\* The browser's session has logged in with valid credentials and has not
\* logged out since.
SessionValid ==
    SessionEvents # {} /\ log[Max(SessionEvents)][3] = "login success"

\* Nothing of the jail has run for call c.
Untouched(c) ==
    /\ outcome[c] = NoOutcome
    /\ keyword_hits[c] = <<>>
    /\ flag_next[c] = 0
    /\ exec_env[c] = NoEnvironment
    /\ ip[c] = 0 /\ vm_queue[c] = <<>> /\ spawned[c] = 0
    /\ timer[c] = "none"
    /\ \A i \in 1..Len(log) : log[i][2] = c => log[i][1] \notin LOG_LEVELS

\* C34: run_python hands the code to the jail only when the session has
\* logged in with valid credentials and has not logged out since; every other
\* request is answered 403, and for it no code is filtered, executed or
\* escalated.
C34_RequestStep ==
    \A c \in Calls :
        /\ (pc[c] = "request" /\ pc'[c] # "request") =>
              IF SessionValid
              THEN pc'[c] = "start" /\ response'[c] = NoResponse
              ELSE pc'[c] = "rejected" /\ response'[c] = Forbidden
        /\ pc'[c] = "rejected" => Untouched(c)' /\ response'[c] = Forbidden

C34_OnlyLoggedInSessionsRunCode == [][C34_RequestStep]_vars

\* A request made after a valid login was run and answered, and a request
\* made after the logout was rejected.
C34_Witness ==
    /\ pc["A"] = "done" /\ Answered("A") /\ response["A"].status \in {200, 400}
    /\ pc["B"] = "rejected" /\ response["B"] = Forbidden
    /\ ~SessionValid


----------------------------------------------------------------------------
(* The vm flag file: C35, C36.                                             *)

\* No /devs/app request is under way and no restore timer is waiting or
\* running: nothing will write the vm flag file unless a new request comes.
Settled ==
    \A r \in Requests : /\ dev_pc[r] \in {"idle", "done"}
                        /\ restore[r] \in {"none", "cancelled", "finished"}

\* The lines of the log that record a restore's write, successful or not.
RestoreLines ==
    {i \in 1..Len(log) :
        log[i][3] \in {"vm flag auto-restore", "vm flag auto-restore failed"}}

\* The most recent write of a restore raised.
LastRestoreFailed ==
    /\ RestoreLines # {}
    /\ log[Max(RestoreLines)][3] = "vm flag auto-restore failed"

PendingTimers == {r \in Requests : restore[r] = "armed"}

\* C36: at most one restore timer is pending, and _VM_FLAG_RESET_TIMER refers
\* to it; the global is None only when no timer is pending.
C36_OnePendingTimerAndTheGlobalRefersToIt ==
    /\ Cardinality(PendingTimers) <= 1
    /\ PendingTimers # {} => reset_timer \in PendingTimers


----------------------------------------------------------------------------
(* The fields of violations and results: C37, C38, C39.                    *)

\* A step in which call c raises a JailViolation that reports
\* fake_flag_dropped = True.
ReportsDrop(c) ==
    /\ outcome[c] = NoOutcome
    /\ outcome'[c].exc = "JailViolation"
    /\ outcome'[c].fake_flag_dropped

C37_DropStep ==
    \A c \in Calls :
        ReportsDrop(c) =>
            /\ flag_next[c] \notin flag_dir
            /\ flag_dir' = flag_dir \cup {flag_next[c]}
            /\ fake_flag_path' = flag_next[c]

\* C37: whenever a raised JailViolation reports fake_flag_dropped = True, the
\* call has written a decoy file that did not exist before and
\* fake_flag_path points to it.
C37_ReportedDropWasWritten == [][C37_DropStep]_vars


\* KEYWORD_HONEYPOTS, lines 297-305, for the two built-in terms of the model.
HoneypotTable ==
    [term \in {<<"o","s">>, <<"s","y","s">>} |->
        IF term = <<"o","s">> THEN "honeypot:os" ELSE "honeypot:sys"]

\* The message registered for `term`, or the generic message.
RegisteredMessage(term) ==
    IF term \in DOMAIN HoneypotTable THEN HoneypotTable[term]
    ELSE "Keyword violation detected."

\* The configured term of lowest position that occurs in the sanitized code of
\* call c when letter case is ignored.
FirstMatchedTerm(c) ==
    LET found == {n \in 1..Len(banned_keywords) :
                    OccursIgnoringCase(banned_keywords[n], Sanitize(code[c]))}
    IN  banned_keywords[CHOOSE n \in found : \A m \in found : n <= m]

\* C38: the banner of a violation is the honeypot message registered for the
\* first matched term, in the filter's order, or the generic message when
\* that term has none, followed by the fixed suffix.
C38_BannerNamesFirstMatchedTerm ==
    \A c \in Calls :
        outcome[c].exc = "JailViolation" =>
            outcome[c].banner =
                <<RegisteredMessage(FirstMatchedTerm(c)),
                  "Fake flag dispensed for archival joy.">>

\* A violation for a text in which "sys" comes before "os": "os" is the first
\* term the filter returns.
C38_Witness ==
    \E c \in Calls :
        /\ outcome[c].exc = "JailViolation"
        /\ code[c] = <<"s","y","s"," ","o","s">>
        /\ outcome[c].banned_keywords = << <<"o","s">>, <<"s","y","s">> >>
        /\ outcome[c].banner[1] = "honeypot:os"


\* C39: every ExecutionResult execute_code returns has an empty
\* banned_keywords tuple and fake_flag_dropped = False, and on the compile,
\* runtime and timeout paths its vm_sessions is empty.
C39_ResultsCarryNoViolationFields ==
    \A c \in Calls :
        outcome[c].kind = "result" =>
            /\ outcome[c].banned_keywords = <<>>
            /\ ~outcome[c].fake_flag_dropped
            /\ outcome[c].path \in {"compile", "runtime", "timeout"} =>
                   outcome[c].vm_sessions = <<>>

\* A call whose code queued a payload and then failed: the result of the
\* runtime path holds no session.
C39_Witness ==
    \E c \in Calls :
        /\ outcome[c].kind = "result"
        /\ outcome[c].path = "runtime"
        /\ vm_queue[c] # <<>>
        /\ outcome[c].vm_sessions = <<>>
        /\ outcome[c].banned_keywords = <<>>

====
